---- MODULE Spec2Model ----
(***************************************************************************)
(* A model of the caching / security-analysis engine                       *)
(* (src/claude_cache_security_enhanced.py, class ClaudeCacheSecurityEnhanced)*)
(* and of the daemon handlers that drive it                                *)
(* (src/claude_cache_security_daemon.py, class CacheSecurityDaemon).       *)
(*                                                                         *)
(* The engine is shared by request threads.  Every handler is cut into the *)
(* steps between which another thread can run: one step per section that   *)
(* holds _db_lock (the pooled-connection context manager yields while it   *)
(* holds the lock, so a whole "with self._get_db_connection()" block is one*)
(* critical section) and one step per file-system access.                  *)
(*                                                                         *)
(* Sizes are counted in blocks: a file content is a sequence of blocks, a  *)
(* block is either plain text (0) or one occurrence of a match of security *)
(* pattern k (1..14, in declaration order).  The engine is taken as        *)
(* constructed with its default configuration.                             *)
(***************************************************************************)
EXTENDS Integers, Sequences, FiniteSets, TLC

(***************************************************************************)
(* Bounds of the model.                                                    *)
(***************************************************************************)
MaxCalls == 2     \* requests issued, one at a time (Spec, GitSpec, ConfigSpec)
MaxMtime == 2     \* modification times 1..MaxMtime
MaxConcCalls == 3 \* requests issued by two concurrent clients (ConcSpec)
MaxRaceCalls == 2 \* cache calls issued by two concurrent clients (RaceSpec)
MaxTextLen == 5   \* blocks of a content given to the analyzer (AnalyzeSpec)
MaxMetricsCalls == 3 \* requests issued, one at a time (MetricsSpec)
MaxWorkerCalls == 3 \* cycles started by the maintenance loops (WorkerSpec)
MaxCheckCalls == 3 \* requests of the two clients together (CheckSpec)
MaxCounterCalls == 3 \* cache requests of the two clients together (CounterSpec)
MaxRescanCalls == 3 \* cache requests and re-scans together (RescanSpec)
MaxTierCalls == 4 \* insertions into the tiers (TierSpec)
TierHotSize == 2 \* scaled capacity of the hot tier in TierSpec
TierWarmSize == 3 \* scaled capacity of the warm tier in TierSpec
MaxWarmCalls == 1 \* warm requests issued, one at a time (WarmSpec)
MaxPoolCalls == 3 \* _get_db_connection calls issued (PoolSpec)
MaxRewriteCalls == 2 \* cache requests issued (RewriteSpec)
MaxFreshCalls == 4 \* cache requests issued, the first ingestion included (FreshSpec)

(***************************************************************************)
(* Program constants (sizes in blocks, capacities scaled to the path set). *)
(***************************************************************************)
PartitionCount       == 4   \* config.get("partition_count", 4)
CompressionThreshold == 2   \* compression_threshold_kb * 1024
MaxFileSize          == 3   \* max_file_size_mb * 1024 * 1024
HotSize              == 1   \* LRUCache(maxsize=...)
WarmSize             == 2   \* TTLCache(maxsize=...)
GzipMagic1           == 31  \* 0x1f
GzipMagic2           == 139 \* 0x8b

(***************************************************************************)
(* Paths.  LinkA is a second name (through a symlinked directory) of PathA;*)
(* PathOut lies outside every allowed directory.                           *)
(***************************************************************************)
PathA   == "/tmp/a.py"
PathB   == "/tmp/b.txt"
LinkA   == "/tmp/l/a.py"
PathOut == "/etc/x.py"

Paths    == {PathA, PathB}
RawPaths == {PathA, PathB, LinkA, PathOut}

\* the files of the machine: those under /tmp and one outside it
Files == Paths \cup {PathOut}

\* Path(file_path).resolve()
Resolve(raw) == IF raw = LinkA THEN PathA ELSE raw

\* the directory a resolved path lies in
DirOf(p) == IF p = PathOut THEN "/etc" ELSE "/tmp"

AllowedDirs == {"/root", "/tmp"}

\* a plausible slip: every path is let through
ValidatePath_Any(raw) == TRUE

\* _validate_path: the resolved path lies under one of allowed_dirs
ValidatePath(raw) == DirOf(Resolve(raw)) \in AllowedDirs

\* Path.suffix.lower()
Suffix(p) == IF p = PathB THEN ".txt" ELSE ".py"

\* int(hashlib.md5(path.encode()).hexdigest()[:2], 16)
Md5FirstByte(p) ==
  CASE p = PathA   -> 138
    [] p = PathB   -> 171
    [] p = LinkA   -> 44
    [] OTHER       -> 56

Partitions == 0 .. (PartitionCount - 1)

\* a plausible slip: the remainder is taken by one less than the count
GetPartitionForPath_OffByOne(p) == Md5FirstByte(p) % (PartitionCount - 1)

\* _get_partition_for_path
GetPartitionForPath(p) == Md5FirstByte(p) % PartitionCount

(***************************************************************************)
(* Options: <<>> is None, <<v>> is the value v.                            *)
(***************************************************************************)
None == <<>>
Some(v) == <<v>>
The(o) == o[1]

(***************************************************************************)
(* File contents and the codecs applied to them.                           *)
(***************************************************************************)
Text0   == <<>>            \* a file of zero bytes
TextPw  == <<1>>           \* one hardcoded password
TextBig == <<6, 1, 0>>     \* larger than the compression threshold
TextOver == <<0, 0, 0, 0>> \* larger than the ingestion ceiling
Contents == {Text0, TextPw, TextBig, TextOver}


\* hashlib.sha256(content).hexdigest(): modelled collision-free
Sha256(bytes) == [digest |-> bytes]

\* gzip.compress(content, compresslevel=6): header, then the payload
GzipCompress(bytes) == <<GzipMagic1, GzipMagic2>> \o bytes

IsGzip(bytes) ==
  /\ Len(bytes) >= 2
  /\ bytes[1] = GzipMagic1
  /\ bytes[2] = GzipMagic2

\* gzip.decompress(content): None stands for the BadGzipFile exception
GzipDecompress(bytes) ==
  IF IsGzip(bytes) THEN Some(SubSeq(bytes, 3, Len(bytes))) ELSE None

(***************************************************************************)
(* Pattern Engine: SecurityAnalyzer._load_security_patterns, in declaration*)
(* order.  A block k of a content is one match of pattern k.               *)
(***************************************************************************)
SecurityPatterns == <<
  [severity |-> "HIGH",     description |-> "Hardcoded password",
   file_types |-> {".py", ".js", ".java", ".cs", ".go"}],
  [severity |-> "HIGH",     description |-> "Hardcoded API key",
   file_types |-> {".py", ".js", ".java", ".cs", ".go", ".yml", ".yaml"}],
  [severity |-> "HIGH",     description |-> "Hardcoded secret/token",
   file_types |-> {".py", ".js", ".java", ".cs", ".go"}],
  [severity |-> "HIGH",     description |-> "Potential SQL injection",
   file_types |-> {".py", ".php", ".java"}],
  [severity |-> "HIGH",     description |-> "SQL injection via f-string",
   file_types |-> {".py"}],
  [severity |-> "CRITICAL", description |-> "Command injection risk",
   file_types |-> {".py"}],
  [severity |-> "HIGH",     description |-> "Command injection via subprocess",
   file_types |-> {".py"}],
  [severity |-> "CRITICAL", description |-> "Code injection via eval",
   file_types |-> {".py", ".js", ".php"}],
  [severity |-> "MEDIUM",   description |-> "Path traversal vulnerability",
   file_types |-> {".py", ".js", ".java"}],
  [severity |-> "MEDIUM",   description |-> "Weak cryptographic hash",
   file_types |-> {".py", ".js", ".java", ".cs"}],
  [severity |-> "LOW",      description |-> "Insecure random for security",
   file_types |-> {".py"}],
  [severity |-> "MEDIUM",   description |-> "Overly permissive CORS",
   file_types |-> {".py", ".js", ".java"}],
  [severity |-> "HIGH",     description |-> "Unsafe deserialization",
   file_types |-> {".py"}],
  [severity |-> "HIGH",     description |-> "Unsafe YAML loading",
   file_types |-> {".py"}] >>

\* len(pattern.regex.findall(content))
Matches(text, k) == Cardinality({i \in 1 .. Len(text) : text[i] = k})

\* the score adjustment of one matched pattern
Deduction(severity) ==
  CASE severity = "CRITICAL" -> 30
    [] severity = "HIGH"     -> 20
    [] severity = "MEDIUM"   -> 10
    [] OTHER                 -> 5

\* a plausible slip: a pattern is counted once for every occurrence
MatchedPatterns_PerOccurrence(text, path) ==
  SelectSeq(text, LAMBDA b : /\ b \in 1 .. Len(SecurityPatterns)
                             /\ Suffix(path) \in SecurityPatterns[b].file_types)

\* the patterns that apply to the extension and match, in declaration order
MatchedPatterns(text, path) ==
  SelectSeq([k \in 1 .. Len(SecurityPatterns) |-> k],
            LAMBDA k : /\ Suffix(path) \in SecurityPatterns[k].file_types
                       /\ Matches(text, k) > 0)

RECURSIVE SumDeductions(_)
SumDeductions(ks) ==
  IF ks = <<>> THEN 0
  ELSE Deduction(SecurityPatterns[Head(ks)].severity) + SumDeductions(Tail(ks))

\* SecurityAnalyzer.analyze_content: the score ...
AnalyzeScore(text, path) ==
  LET raw == 100 - SumDeductions(MatchedPatterns(text, path))
  IN  IF raw < 0 THEN 0 ELSE raw

\* ... and the findings, one per matched pattern
AnalyzeFindings(text, path) ==
  LET ks == MatchedPatterns(text, path)
  IN  [i \in 1 .. Len(ks) |->
         [type     |-> SecurityPatterns[ks[i]].description,
          severity |-> SecurityPatterns[ks[i]].severity,
          matches  |-> Matches(text, ks[i])]]

\* content.decode('utf-8', errors='ignore'): the blocks that are text of the
\* file; the two header bytes of a gzip stream are not valid text
DecodeText(bytes) ==
  SelectSeq(bytes, LAMBDA b : b \in 0 .. Len(SecurityPatterns))

\* _determine_file_type
DetermineFileType(p) ==
  CASE Suffix(p) \in {".py", ".js", ".ts", ".java", ".cs", ".go", ".php",
                      ".rb", ".c", ".cpp", ".rs"}                -> "source"
    [] Suffix(p) \in {".yml", ".yaml", ".json", ".xml", ".conf",
                      ".ini", ".toml"}                           -> "config"
    [] Suffix(p) \in {".md", ".txt", ".rst", ".adoc"}            -> "docs"
    [] OTHER                                                     -> "data"

\* the options of _load_config that the model varies, and their defaults
Configs == [security_analysis : BOOLEAN]

DefaultConfig == [security_analysis |-> TRUE]

(***************************************************************************)
(* State.                                                                  *)
(***************************************************************************)
VARIABLES
  disk,     \* the file system: canonical path -> None | Some([content, mtime])
  index,    \* table security_cache of the index store: path -> row
  blobs,    \* table partition_cache of each partition store: path -> row
  vulnLog,  \* table vulnerabilities of the index store, in insertion order
  hot,      \* _memory_cache (LRUCache): entries, least recently used first
  warm,     \* _ttl_cache (TTLCache): entries, oldest insertion first
  stats,    \* self.stats
  dbLock,   \* _db_lock: 0 when free, else the thread that holds it
  gitOn,    \* self.git_integration is set
  config,   \* self.config: the options read by _load_config
  calls,    \* requests issued so far (over all lives of the process)
  pc,       \* per thread: where it stands in its handler
  loc,      \* per thread: the local variables of its handler
  res,      \* per thread: what its last request returned, while the files
            \* are as they were when it returned
  dbPools,  \* _db_pools: store -> None | Some(connection)
  connects  \* per store: the sqlite3.connect calls of _get_db_connection

vars == <<disk, index, blobs, vulnLog, hot, warm, stats, dbLock, gitOn,
          config, calls, pc, loc, res, dbPools, connects>>

\* self.config.get("security_analysis", True)
SecurityAnalysis == config.security_analysis

\* the elements of a list
Range(list) == {list[i] : i \in 1 .. Len(list)}

Threads == {1, 2, 3, 4}
\* the threads that serve client connections
Clients == {1, 2}
Free == 0

\* time.time(): the time of a request is its number
Now == calls

\* the local variables of a handler, all operations together
LocNull ==
  [op |-> "none", caller |-> "none", key |-> "", force |-> FALSE,
   entry |-> None, content |-> None, blob |-> <<>>, text |-> <<>>,
   files |-> <<>>, changes |-> <<>>, processed |-> <<>>, diff |-> <<>>,
   part |-> 0, patterns |-> <<>>, cached |-> 0, errors |-> 0,
   sizes |-> <<>>, loaded |-> 0, db |-> None]

ResNull ==
  [op |-> "none", key |-> "", force |-> FALSE, outcome |-> "none",
   entry |-> None, content |-> None, processed |-> <<>>, metrics |-> None,
   patterns |-> <<>>, report |-> None, db |-> None, conn |-> None]

(***************************************************************************)
(* The two in-memory tiers (cachetools).                                   *)
(***************************************************************************)
Keys(tier) == {tier[i].path : i \in 1 .. Len(tier)}

Lookup(tier, key) ==
  LET hits == SelectSeq(tier, LAMBDA e : e.path = key)
  IN  IF hits = <<>> THEN None ELSE Some(hits[1])

Without(tier, key) == SelectSeq(tier, LAMBDA e : e.path # key)

\* LRUCache.__getitem__: the entry becomes the most recently used
HotTouch(tier, key) == Without(tier, key) \o Lookup(tier, key)

\* a plausible slip: a full cache evicts its most recently used entries
TierSet_EvictNewest(tier, e, capacity) ==
  IF e.path \in Keys(tier) THEN Append(Without(tier, e.path), e)
  ELSE IF Len(tier) >= capacity
       THEN Append(SubSeq(tier, 1, capacity - 1), e)
       ELSE Append(tier, e)

\* Cache.__setitem__ of a bounded cache: a new key evicts from the front
\* while the cache is full; the key ends up last
TierSet(tier, e, capacity) ==
  IF e.path \in Keys(tier) THEN Append(Without(tier, e.path), e)
  ELSE IF Len(tier) >= capacity
       THEN Append(SubSeq(tier, Len(tier) - capacity + 2, Len(tier)), e)
       ELSE Append(tier, e)

\* self._memory_cache[key] = entry
HotSet(tier, e) == TierSet(tier, e, HotSize)

\* a plausible slip: the warm tier is not written
WarmSet_Skip(tier, e) == tier

\* self._ttl_cache[key] = entry
WarmSet(tier, e) == TierSet(tier, e, WarmSize)

(***************************************************************************)
(* The stores.                                                             *)
(***************************************************************************)
\* a function without one key
Drop(f, key) == [k \in (DOMAIN f) \ {key} |-> f[k]]

\* a plausible slip: the table is rewritten with the one row
Upsert_Only(f, key, row) == [k \in {key} |-> row]

\* a plausible slip: INSERT OR IGNORE, an existing row is kept
Upsert_KeepOld(f, key, row) ==
  IF key \in DOMAIN f
  THEN f
  ELSE [k \in (DOMAIN f) \cup {key} |-> IF k = key THEN row ELSE f[k]]

\* INSERT OR REPLACE
Upsert(f, key, row) == [k \in (DOMAIN f) \cup {key} |-> IF k = key THEN row ELSE f[k]]

EmptyTable == [k \in {} |-> 0]

\* SELECT * FROM security_cache WHERE path = ?  (_get_cache_entry)
GetCacheEntry(key) == IF key \in DOMAIN index THEN Some(index[key]) ELSE None

\* the partition that holds a blob stored under key, if any
BlobPartitions(key) == {q \in Partitions : key \in DOMAIN blobs[q]}

\* a plausible slip: the rows the path already has are replaced
StoreVulnerabilities_Replace(log, key, findings) ==
  SelectSeq(log, LAMBDA r : r.file_path # key)
    \o [i \in 1 .. Len(findings) |->
          [file_path |-> key, vulnerability_type |-> findings[i].type,
           severity |-> findings[i].severity, line_number |-> -1,
           resolved |-> FALSE]]

\* _store_vulnerabilities: one row per finding, appended
StoreVulnerabilities(log, key, findings) ==
  log \o [i \in 1 .. Len(findings) |->
            [file_path |-> key, vulnerability_type |-> findings[i].type,
             severity |-> findings[i].severity, line_number |-> -1,
             resolved |-> FALSE]]

\* path.stat() of a file that may be gone
Stat(p) == IF p \in DOMAIN disk THEN disk[p] ELSE None

(***************************************************************************)
(* The connection pool (_get_db_connection).                               *)
(***************************************************************************)
\* db_file: the index store when partition_id is None, else that partition's
\* store
IndexDb == None
PartitionDb(q) == Some(q)
DbFiles == {IndexDb} \cup {PartitionDb(q) : q \in Partitions}

\* lines 508-515: the connection of db_file is opened and pooled if the pool
\* has none; a connection is named by its rank among those opened on the file
PoolAfter(pools, made, f) ==
  IF pools[f] = None THEN [pools EXCEPT ![f] = Some(made[f] + 1)] ELSE pools

\* the sqlite3.connect calls made so far, after the call that gave newPools
ConnectsAfter(pools, made, newPools, f) ==
  IF newPools[f] # pools[f] THEN [made EXCEPT ![f] = @ + 1] ELSE made

\* lines 503-517, entered with _db_lock free: the connection yielded for
\* db_file f is dbPools'[f]
GetDbConnection(f) ==
  /\ dbPools' = PoolAfter(dbPools, connects, f)
  /\ connects' = ConnectsAfter(dbPools, connects, dbPools', f)

\* __init__: the pool starts empty (336) and _init_database opens the index
\* store through it (415); _init_partition_db does not use the pool
PoolsAfterInit == [f \in DbFiles |-> IF f = IndexDb THEN Some(1) ELSE None]
ConnectsAfterInit == [f \in DbFiles |-> IF f = IndexDb THEN 1 ELSE 0]

InitStores ==
  /\ disk = [p \in Files |-> IF p = PathA
                              THEN None
                              ELSE Some([content |-> TextPw, mtime |-> 1])]
  /\ index = EmptyTable
  /\ blobs = [q \in Partitions |-> EmptyTable]
  /\ vulnLog = <<>>
  /\ hot = <<>>
  /\ warm = <<>>
  /\ stats = [cache_hits |-> 0, cached_files |-> 0, errors |-> 0]
  /\ dbLock = Free
  /\ gitOn = FALSE
  /\ calls = 0
  /\ pc = [t \in Threads |-> "idle"]
  /\ res = [t \in Threads |-> ResNull]
  /\ dbPools = PoolsAfterInit
  /\ connects = ConnectsAfterInit

Init ==
  /\ InitStores
  /\ config = DefaultConfig
  /\ loc = [t \in Threads |-> LocNull]

(***************************************************************************)
(* The environment: the file system, the clock, the life of the process.   *)
(***************************************************************************)
\* a file is written, with some modification time
WriteFile(p, c, m) ==
  /\ disk' = [disk EXCEPT ![p] = Some([content |-> c, mtime |-> m])]
  /\ disk' # disk
  /\ res' = [t \in Threads |-> ResNull]
  /\ UNCHANGED <<index, blobs, vulnLog, hot, warm, stats, dbLock, gitOn, config,
                 calls, pc, loc, dbPools, connects>>

DeleteFile(p) ==
  /\ disk[p] # None
  /\ disk' = [disk EXCEPT ![p] = None]
  /\ res' = [t \in Threads |-> ResNull]
  /\ UNCHANGED <<index, blobs, vulnLog, hot, warm, stats, dbLock, gitOn, config,
                 calls, pc, loc, dbPools, connects>>

\* the lifetime (ttl) of the oldest warm entry runs out
ExpireWarm ==
  /\ warm # <<>>
  /\ warm' = Tail(warm)
  /\ UNCHANGED <<disk, index, blobs, vulnLog, hot, stats, dbLock, gitOn, config,
                 calls, pc, loc, res, dbPools, connects>>

\* the process ends and is started again: __init__ over the stores it left
Restart ==
  /\ hot' = <<>>
  /\ warm' = <<>>
  /\ stats' = [cache_hits |-> 0, cached_files |-> 0, errors |-> 0]
  /\ dbLock' = Free
  /\ gitOn' = FALSE
  /\ pc' = [t \in Threads |-> "idle"]
  /\ loc' = [t \in Threads |-> LocNull]
  /\ res' = [t \in Threads |-> ResNull]
  /\ dbPools' = PoolsAfterInit
  /\ connects' = ConnectsAfterInit
  /\ UNCHANGED <<disk, index, blobs, vulnLog, calls, config>>

(***************************************************************************)
(* Returning from a handler.  A handler called by sync or by the re-scan   *)
(* returns into its caller; a request returns its result to the client.    *)
(***************************************************************************)
SyncFrame(l) ==
  [LocNull EXCEPT !.op = "sync", !.changes = l.changes,
                  !.processed = l.processed, !.diff = l.diff]

\* the locals of warm_cache_parallel around one submitted call
WarmFrame(l) ==
  [LocNull EXCEPT !.op = "warm", !.patterns = l.patterns, !.diff = l.diff,
                  !.files = l.files, !.processed = l.processed,
                  !.cached = l.cached, !.errors = l.errors]

ScanFrame(l) ==
  [LocNull EXCEPT !.op = "scan", !.files = l.files, !.processed = l.processed]

ResultOf(t, l, outcome, entry, content) ==
  [op |-> l.op, key |-> l.key, force |-> l.force,
   outcome |-> outcome, entry |-> entry, content |-> content,
   processed |-> l.processed, metrics |-> None, patterns |-> l.patterns,
   report |-> None, db |-> None, conn |-> None]

Return(t, l, outcome, entry, content) ==
  CASE l.caller = "sync" ->
         /\ pc' = [pc EXCEPT ![t] = "sync_next"]
         /\ loc' = [loc EXCEPT ![t] = SyncFrame(l)]
         /\ res' = res
    [] l.caller = "warm" ->
         \* lines 799-801: "if entry" counts the call as cached
         /\ pc' = [pc EXCEPT ![t] = "warm_next"]
         /\ loc' = [loc EXCEPT ![t] =
                      [WarmFrame(l) EXCEPT
                         !.cached = IF entry # None THEN @ + 1 ELSE @]]
         /\ res' = res
    [] l.caller = "scan" ->
         /\ pc' = [pc EXCEPT ![t] = "sc_update"]
         /\ loc' = [loc EXCEPT ![t] =
                      [ScanFrame(l) EXCEPT !.key = l.key, !.content = content]]
         /\ res' = res
    [] OTHER ->
         /\ pc' = [pc EXCEPT ![t] = "idle"]
         /\ loc' = [loc EXCEPT ![t] = LocNull]
         /\ res' = [res EXCEPT ![t] = ResultOf(t, l, outcome, entry, content)]

Goto(t, label, l) ==
  /\ pc' = [pc EXCEPT ![t] = label]
  /\ loc' = [loc EXCEPT ![t] = l]
  /\ res' = res

CountError == stats' = [stats EXCEPT !.errors = @ + 1]

(***************************************************************************)
(* cache_file_enhanced(file_path, force)                                   *)
(***************************************************************************)
\* lines 574-581: validation, then the choice between lookup and ingestion
BeginCache(t, frame, raw, force) ==
  LET l == [frame EXCEPT !.op = "cache", !.key = raw, !.force = force]
  IN  IF ~ValidatePath(raw)
      THEN Return(t, l, "rejected", None, None)
      ELSE Goto(t, IF force THEN "cf_read" ELSE "cf_lookup", l)

\* the request cache(path, force)
CacheFile(t, raw, force) ==
  /\ pc[t] = "idle"
  /\ calls' = calls + 1
  /\ BeginCache(t, LocNull, raw, force)
  /\ UNCHANGED <<disk, index, blobs, vulnLog, hot, warm, stats, dbLock,
                 gitOn, config, dbPools, connects>>

\* a plausible slip: an entry counts as stale when the times are equal
IsFresh_Strict(cached, st) == The(cached).modified_time > st.mtime

\* line 583: cached_entry.modified_time >= path.stat().st_mtime
IsFresh(cached, st) == The(cached).modified_time >= st.mtime

\* lines 582-583: the index lookup and the freshness test
CfLookup(t) ==
  LET l      == loc[t]
      path   == Resolve(l.key)
      cached == GetCacheEntry(path)
      st     == Stat(path)
  IN  /\ pc[t] = "cf_lookup"
      /\ dbLock = Free
      /\ IF cached = None
         THEN Goto(t, "cf_read", l) /\ UNCHANGED stats
         ELSE IF st = None
              THEN CountError /\ Return(t, l, "error", None, None)
              ELSE IF IsFresh(cached, The(st))
                   THEN /\ Goto(t, "cf_bump", [l EXCEPT !.entry = cached])
                        /\ UNCHANGED stats
                   ELSE Goto(t, "cf_read", l) /\ UNCHANGED stats
      /\ UNCHANGED <<disk, index, blobs, vulnLog, hot, warm, dbLock, gitOn,
                     config, calls, dbPools, connects>>

\* a plausible slip: the fresh path re-counts from one
BumpRow_Reset(row, time) == [row EXCEPT !.access_count = 1, !.last_accessed = time]

\* the UPDATE of _update_access_stats on one row
BumpRow(row, time) == [row EXCEPT !.access_count = @ + 1, !.last_accessed = time]

\* lines 584-585: _update_access_stats, then the entry read before it
CfBump(t) ==
  LET l    == loc[t]
      path == Resolve(l.key)
  IN  /\ pc[t] = "cf_bump"
      /\ dbLock = Free
      /\ index' = IF path \in DOMAIN index
                  THEN [index EXCEPT ![path] = BumpRow(@, Now)]
                  ELSE index
      /\ stats' = [stats EXCEPT !.cache_hits = @ + 1]
      /\ Return(t, l, "fresh", l.entry, None)
      /\ UNCHANGED <<disk, blobs, vulnLog, hot, warm, dbLock, gitOn, config,
                     calls, dbPools, connects>>

\* a plausible slip: the count is computed from the entry read at line 582
CfBumpRow_FromEntry(t) ==
  LET l    == loc[t]
      path == Resolve(l.key)
  IN  /\ pc[t] = "cf_bump"
      /\ dbLock = Free
      /\ index' = IF path \in DOMAIN index
                  THEN [index EXCEPT ![path].access_count =
                                       The(l.entry).access_count + 1,
                                     ![path].last_accessed = Now]
                  ELSE index
      /\ Goto(t, "cf_hits_load", l)
      /\ UNCHANGED <<disk, blobs, vulnLog, hot, warm, stats, dbLock, gitOn,
                     config, calls, dbPools, connects>>

\* _update_access_stats taken statement by statement, for threads that run
\* side by side.  Lines 999-1006: the UPDATE, under the connection's lock
CfBumpRow(t) ==
  LET l    == loc[t]
      path == Resolve(l.key)
  IN  /\ pc[t] = "cf_bump"
      /\ dbLock = Free
      /\ index' = IF path \in DOMAIN index
                  THEN [index EXCEPT ![path] = BumpRow(@, Now)]
                  ELSE index
      /\ Goto(t, "cf_hits_load", l)
      /\ UNCHANGED <<disk, blobs, vulnLog, hot, warm, stats, dbLock, gitOn,
                     config, calls, dbPools, connects>>

\* line 1008, self.stats['cache_hits'] += 1, with no lock held: the value
\* is read ...
CfHitsLoad(t) ==
  /\ pc[t] = "cf_hits_load"
  /\ Goto(t, "cf_hits_store", [loc[t] EXCEPT !.loaded = stats.cache_hits])
  /\ UNCHANGED <<disk, index, blobs, vulnLog, hot, warm, stats, dbLock,
                 gitOn, config, calls, dbPools, connects>>

\* ... and the value read, plus one, is written back
CfHitsStore(t) ==
  LET l == loc[t]
  IN  /\ pc[t] = "cf_hits_store"
      /\ stats' = [stats EXCEPT !.cache_hits = l.loaded + 1]
      /\ Return(t, l, "fresh", l.entry, None)
      /\ UNCHANGED <<disk, index, blobs, vulnLog, hot, warm, dbLock, gitOn,
                     config, calls, dbPools, connects>>

\* lines 588-593: _read_file_efficiently
CfRead(t) ==
  LET l    == loc[t]
      st   == Stat(Resolve(l.key))
  IN  /\ pc[t] = "cf_read"
      /\ IF st = None
         THEN Return(t, l, "unreadable", None, None)
         ELSE IF Len(The(st).content) > MaxFileSize
              THEN Return(t, l, "too_large", None, None)
              ELSE Goto(t, "cf_build", [l EXCEPT !.text = The(st).content])
      /\ UNCHANGED <<disk, index, blobs, vulnLog, hot, warm, stats, dbLock,
                     gitOn, config, calls, dbPools, connects>>

\* line 613: len(content) > compression_threshold
ShouldCompress(text) == Len(text) > CompressionThreshold

\* a plausible slip: the bytes are stored raw whatever their length
EncodeBlob_Raw(text) == text

\* lines 611-615: the bytes that are stored
EncodeBlob(text) == IF ShouldCompress(text) THEN GzipCompress(text) ELSE text

\* lines 595-646: analysis, checksum, partition, compression and the entry
\* (cached_time, git_sha and metadata are written and never read: left out)
BuildEntry(path, text, st, time) ==
  LET source == SecurityAnalysis /\ DetermineFileType(path) = "source"
      part   == GetPartitionForPath(path)
  IN  [path           |-> path,
       checksum       |-> Sha256(text),
       size           |-> Len(st.content),
       modified_time  |-> st.mtime,
       compressed     |-> ShouldCompress(text),
       access_count   |-> 1,
       last_accessed  |-> time,
       content_path   |-> <<part, Sha256(text)>>,
       file_type      |-> DetermineFileType(path),
       security_score |-> IF source THEN AnalyzeScore(DecodeText(text), path)
                          ELSE 100,
       vulnerabilities |-> IF source THEN AnalyzeFindings(DecodeText(text), path)
                           ELSE <<>>,
       partition_key  |-> part]

CfBuild(t) ==
  LET l    == loc[t]
      path == Resolve(l.key)
      st   == Stat(path)
  IN  /\ pc[t] = "cf_build"
      /\ IF st = None
         THEN CountError /\ Return(t, l, "error", None, None)
         ELSE /\ Goto(t, "cf_store",
                      [l EXCEPT !.entry = Some(BuildEntry(path, l.text, The(st),
                                                          Now)),
                                !.blob = EncodeBlob(l.text)])
              /\ UNCHANGED stats
      /\ UNCHANGED <<disk, index, blobs, vulnLog, hot, warm, dbLock, gitOn,
                     config, calls, dbPools, connects>>

\* the row _store_in_partition writes
BlobRow(entry, blob) ==
  [content |-> blob, compressed |-> entry.compressed, size |-> entry.size,
   checksum |-> entry.checksum]

\* line 649: _store_in_partition
CfStore(t) ==
  LET l == loc[t]
      e == The(l.entry)
  IN  /\ pc[t] = "cf_store"
      /\ dbLock = Free
      /\ blobs' = [blobs EXCEPT ![e.partition_key] =
                     Upsert(@, e.path, BlobRow(e, l.blob))]
      /\ Goto(t, "cf_index", l)
      /\ GetDbConnection(PartitionDb(e.partition_key))
      /\ UNCHANGED <<disk, index, vulnLog, hot, warm, stats, dbLock, gitOn,
                     config, calls>>

\* line 652: _update_index
CfIndex(t) ==
  LET l == loc[t]
      e == The(l.entry)
  IN  /\ pc[t] = "cf_index"
      /\ dbLock = Free
      /\ index' = Upsert(index, e.path, e)
      /\ Goto(t, "cf_tiers", l)
      /\ UNCHANGED <<disk, blobs, vulnLog, hot, warm, stats, dbLock, gitOn,
                     config, calls, dbPools, connects>>

CountCached == stats' = [stats EXCEPT !.cached_files = @ + 1]

\* lines 655-657 (and 663-665 when there is no finding to store)
CfTiers(t) ==
  LET l == loc[t]
      e == The(l.entry)
  IN  /\ pc[t] = "cf_tiers"
      /\ dbLock = Free
      /\ hot' = HotSet(hot, e)
      /\ warm' = WarmSet(warm, e)
      /\ IF e.vulnerabilities # <<>>
         THEN Goto(t, "cf_vulns", l) /\ UNCHANGED stats
         ELSE CountCached /\ Return(t, l, "ingested", l.entry, None)
      /\ UNCHANGED <<disk, index, blobs, vulnLog, dbLock, gitOn, config,
                     calls, dbPools, connects>>

\* lines 660-665: _store_vulnerabilities, the counter, the entry
CfVulns(t) ==
  LET l == loc[t]
      e == The(l.entry)
  IN  /\ pc[t] = "cf_vulns"
      /\ dbLock = Free
      /\ vulnLog' = StoreVulnerabilities(vulnLog, e.path, e.vulnerabilities)
      /\ CountCached
      /\ Return(t, l, "ingested", l.entry, None)
      /\ UNCHANGED <<disk, index, blobs, hot, warm, dbLock, gitOn, config,
                     calls, dbPools, connects>>

(***************************************************************************)
(* get_cached_content(file_path)                                           *)
(***************************************************************************)
\* a plausible slip: a warm-tier hit is not promoted to the hot tier
TierLookup_NoPromote(t, l) ==
  /\ dbLock = Free
  /\ IF l.key \in Keys(hot)
     THEN /\ hot' = HotTouch(hot, l.key)
          /\ dbLock' = t
          /\ Goto(t, "g_read", [l EXCEPT !.entry = Lookup(hot, l.key)])
     ELSE IF l.key \in Keys(warm)
          THEN /\ hot' = hot
               /\ dbLock' = t
               /\ Goto(t, "g_read", [l EXCEPT !.entry = Lookup(warm, l.key)])
          ELSE /\ hot' = hot
               /\ dbLock' = Free
               /\ Goto(t, "g_lookup", l)

\* lines 929-937: the two tiers are looked up under _db_lock, which is still
\* held when _read_cached_content is called on a hit and is released at the
\* end of the with block on a miss
TierLookup(t, l) ==
  /\ dbLock = Free
  /\ IF l.key \in Keys(hot)
     THEN /\ hot' = HotTouch(hot, l.key)
          /\ dbLock' = t
          /\ Goto(t, "g_read", [l EXCEPT !.entry = Lookup(hot, l.key)])
     ELSE IF l.key \in Keys(warm)
          THEN /\ hot' = HotSet(hot, The(Lookup(warm, l.key)))
               /\ dbLock' = t
               /\ Goto(t, "g_read", [l EXCEPT !.entry = Lookup(warm, l.key)])
          ELSE /\ hot' = hot
               /\ dbLock' = Free
               /\ Goto(t, "g_lookup", l)

\* the request get(path)
GetCachedContent(t, raw) ==
  /\ pc[t] = "idle"
  /\ calls' = calls + 1
  /\ TierLookup(t, [LocNull EXCEPT !.op = "get", !.key = raw])
  /\ UNCHANGED <<disk, index, blobs, vulnLog, warm, stats, gitOn, config, dbPools, connects>>

\* lines 940-944: the entry is rebuilt from the index
GetLookup(t) ==
  LET l     == loc[t]
      entry == GetCacheEntry(l.key)
  IN  /\ pc[t] = "g_lookup"
      /\ dbLock = Free
      /\ IF entry = None
         THEN Return(t, l, "miss", None, None)
         ELSE Goto(t, "g_read", [l EXCEPT !.entry = entry])
      /\ UNCHANGED <<disk, index, blobs, vulnLog, hot, warm, stats, dbLock,
                     gitOn, config, calls, dbPools, connects>>

\* lines 956-960: the stored bytes, decompressed when the row says so
DecodeBlob(row) ==
  IF row.compressed THEN GzipDecompress(row.content) ELSE Some(row.content)

\* SELECT content, compressed FROM partition_cache WHERE path = ?
ReadBlob(entry) ==
  IF entry.path \in DOMAIN blobs[entry.partition_key]
  THEN DecodeBlob(blobs[entry.partition_key][entry.path])
  ELSE None

\* what get reports for a content (_handle_get tests "if content")
Truthy(content) == content # None /\ The(content) # <<>>

\* _read_cached_content: _get_db_connection acquires _db_lock, a lock that
\* is not reentrant
ReadCachedContent(t) ==
  LET l       == loc[t]
      content == ReadBlob(The(l.entry))
  IN  /\ pc[t] = "g_read"
      /\ dbLock = Free
      /\ Return(t, l, IF Truthy(content) THEN "found" ELSE "miss", l.entry,
                content)
      /\ GetDbConnection(PartitionDb(The(l.entry).partition_key))
      /\ UNCHANGED <<disk, index, blobs, vulnLog, hot, warm, stats, dbLock,
                     gitOn, config, calls>>

(***************************************************************************)
(* CacheSecurityDaemon._handle_check(file_path): _get_cache_entry, with    *)
(* the connection context manager taken step by step                       *)
(***************************************************************************)
\* the request check(path)
HandleCheck(t, raw) ==
  /\ pc[t] = "idle"
  /\ calls' = calls + 1
  /\ Goto(t, "ck_enter", [LocNull EXCEPT !.op = "check", !.key = raw])
  /\ UNCHANGED <<disk, index, blobs, vulnLog, hot, warm, stats, dbLock,
                 gitOn, config, dbPools, connects>>

\* lines 507-517: "with self._db_lock:" is entered, the connection looked
\* up or created, and the handle yielded from inside the with block
CkEnter(t) ==
  /\ pc[t] = "ck_enter"
  /\ dbLock = Free
  /\ dbLock' = t
  /\ Goto(t, "ck_query", loc[t])
  /\ UNCHANGED <<disk, index, blobs, vulnLog, hot, warm, stats, gitOn,
                 config, calls, dbPools, connects>>

\* lines 969-974: the caller's SELECT on the yielded handle; leaving the
\* caller's with block resumes the generator, which leaves _db_lock
CkQuery(t) ==
  LET l     == loc[t]
      entry == GetCacheEntry(l.key)
  IN  /\ pc[t] = "ck_query"
      /\ dbLock' = Free
      /\ Return(t, l, IF entry = None THEN "not_cached" ELSE "cached",
                entry, None)
      /\ UNCHANGED <<disk, index, blobs, vulnLog, hot, warm, stats, gitOn,
                     config, calls, dbPools, connects>>

CheckSteps(t) == CkEnter(t) \/ CkQuery(t)

(***************************************************************************)
(* _get_db_connection(partition_id), statement by statement, called by     *)
(* several threads for the index store and the partition stores            *)
(***************************************************************************)
\* a call "with self._get_db_connection(partition_id) as conn:" (line 505:
\* db_file is chosen)
GetConnection(t, f) ==
  /\ pc[t] = "idle"
  /\ calls' = calls + 1
  /\ Goto(t, "gc_enter", [LocNull EXCEPT !.op = "conn", !.db = f])
  /\ UNCHANGED <<disk, index, blobs, vulnLog, hot, warm, stats, dbLock,
                 gitOn, config, dbPools, connects>>

\* a plausible slip: the pool is read and written without _db_lock
GcEnter_NoLock(t) ==
  /\ pc[t] = "gc_enter"
  /\ dbLock' = t
  /\ Goto(t, "gc_lookup", loc[t])
  /\ UNCHANGED <<disk, index, blobs, vulnLog, hot, warm, stats, gitOn,
                 config, calls, dbPools, connects>>

\* line 507: with self._db_lock
GcEnter(t) ==
  /\ pc[t] = "gc_enter"
  /\ dbLock = Free
  /\ dbLock' = t
  /\ Goto(t, "gc_lookup", loc[t])
  /\ UNCHANGED <<disk, index, blobs, vulnLog, hot, warm, stats, gitOn,
                 config, calls, dbPools, connects>>

\* line 508: if str(db_file) not in self._db_pools
GcLookup(t) ==
  LET l == loc[t]
  IN  /\ pc[t] = "gc_lookup"
      /\ Goto(t, IF dbPools[l.db] = None THEN "gc_connect" ELSE "gc_yield", l)
      /\ UNCHANGED <<disk, index, blobs, vulnLog, hot, warm, stats, dbLock,
                     gitOn, config, calls, dbPools, connects>>

\* lines 509-515: sqlite3.connect, the pragmas, and the pool entry is written
GcConnect(t) ==
  LET l == loc[t]
  IN  /\ pc[t] = "gc_connect"
      /\ connects' = [connects EXCEPT ![l.db] = @ + 1]
      /\ dbPools' = [dbPools EXCEPT ![l.db] = Some(connects[l.db] + 1)]
      /\ Goto(t, "gc_yield", l)
      /\ UNCHANGED <<disk, index, blobs, vulnLog, hot, warm, stats, dbLock,
                     gitOn, config, calls>>

\* line 517: the pooled connection is yielded; the caller's block (empty
\* here) runs and the with statement releases _db_lock
GcYield(t) ==
  LET l == loc[t]
  IN  /\ pc[t] = "gc_yield"
      /\ dbLock' = Free
      /\ pc' = [pc EXCEPT ![t] = "idle"]
      /\ loc' = [loc EXCEPT ![t] = LocNull]
      /\ res' = [res EXCEPT ![t] =
                   [ResNull EXCEPT !.op = "conn", !.outcome = "ok",
                                   !.db = l.db, !.conn = dbPools[l.db]]]
      /\ UNCHANGED <<disk, index, blobs, vulnLog, hot, warm, stats, gitOn,
                     config, calls, dbPools, connects>>

PoolRequest(t) ==
  \E f \in DbFiles : calls < MaxPoolCalls /\ GetConnection(t, f)

PoolNext ==
  \E t \in Clients :
    PoolRequest(t) \/ GcEnter(t) \/ GcLookup(t) \/ GcConnect(t) \/ GcYield(t)

PoolSpec == Init /\ [][PoolNext]_vars

(***************************************************************************)
(* scan_all_vulnerabilities()                                              *)
(***************************************************************************)
\* the paths of a set, in the order the index returns them
RECURSIVE InOrder(_)
InOrder(S) ==
  IF S = {} THEN <<>>
  ELSE LET p == IF PathA \in S THEN PathA ELSE CHOOSE q \in S : TRUE
       IN  <<p>> \o InOrder(S \ {p})

\* lines 891-894: SELECT path FROM security_cache WHERE file_type = 'source'
SourcePaths == InOrder({p \in DOMAIN index : index[p].file_type = "source"})

\* the request scan, and a cycle of the re-scan worker
ScanAllVulnerabilities(t) ==
  /\ pc[t] = "idle"
  /\ dbLock = Free
  /\ calls' = calls + 1
  /\ Goto(t, "sc_next", [LocNull EXCEPT !.op = "scan", !.files = SourcePaths])
  /\ UNCHANGED <<disk, index, blobs, vulnLog, hot, warm, stats, dbLock,
                 gitOn, config, dbPools, connects>>

\* lines 897-899: the next file, through get_cached_content
ScanNext(t) ==
  LET l == loc[t]
  IN  /\ pc[t] = "sc_next"
      /\ IF l.files = <<>>
         THEN /\ Return(t, l, "completed", None, None)
              /\ UNCHANGED <<hot, dbLock, dbPools, connects>>
         ELSE TierLookup(t, [l EXCEPT !.key = Head(l.files),
                                      !.files = Tail(l.files),
                                      !.caller = "scan"])
      /\ UNCHANGED <<disk, index, blobs, vulnLog, warm, stats, gitOn, config,
                     calls, dbPools, connects>>

\* lines 908-912: UPDATE security_cache SET security_score, vulnerabilities
Rescore(row, text) ==
  [row EXCEPT !.security_score = AnalyzeScore(text, row.path),
              !.vulnerabilities = AnalyzeFindings(text, row.path)]

\* a plausible slip: the re-score also drops the path from both tiers
ScanUpdate_Invalidate(t) ==
  LET l    == loc[t]
      text == DecodeText(The(l.content))
  IN  /\ pc[t] = "sc_update"
      /\ IF Truthy(l.content)
         THEN /\ dbLock = Free
              /\ index' = IF l.key \in DOMAIN index
                          THEN [index EXCEPT ![l.key] = Rescore(@, text)]
                          ELSE index
              /\ hot' = Without(hot, l.key)
              /\ warm' = Without(warm, l.key)
              /\ IF AnalyzeFindings(text, l.key) # <<>>
                 THEN Goto(t, "sc_vulns", l)
                 ELSE Goto(t, "sc_next",
                           [ScanFrame(l) EXCEPT
                              !.processed = Append(l.processed, l.key)])
         ELSE /\ index' = index
              /\ UNCHANGED <<hot, warm, dbPools, connects>>
              /\ Goto(t, "sc_next", ScanFrame(l))
      /\ UNCHANGED <<disk, blobs, vulnLog, stats, dbLock, gitOn,
                     config, calls, dbPools, connects>>

\* lines 900-913: the content is analysed and the row updated
ScanUpdate(t) ==
  LET l    == loc[t]
      text == DecodeText(The(l.content))
  IN  /\ pc[t] = "sc_update"
      /\ IF Truthy(l.content)
         THEN /\ dbLock = Free
              /\ index' = IF l.key \in DOMAIN index
                          THEN [index EXCEPT ![l.key] = Rescore(@, text)]
                          ELSE index
              /\ IF AnalyzeFindings(text, l.key) # <<>>
                 THEN Goto(t, "sc_vulns", l)
                 ELSE Goto(t, "sc_next",
                           [ScanFrame(l) EXCEPT
                              !.processed = Append(l.processed, l.key)])
         ELSE /\ index' = index
              /\ Goto(t, "sc_next", ScanFrame(l))
      /\ UNCHANGED <<disk, blobs, vulnLog, hot, warm, stats, dbLock, gitOn,
                     config, calls, dbPools, connects>>

\* lines 916-919: the findings are appended to the vulnerability log
ScanVulns(t) ==
  LET l    == loc[t]
      text == DecodeText(The(l.content))
  IN  /\ pc[t] = "sc_vulns"
      /\ dbLock = Free
      /\ vulnLog' = StoreVulnerabilities(vulnLog, l.key,
                                         AnalyzeFindings(text, l.key))
      /\ Goto(t, "sc_next",
              [ScanFrame(l) EXCEPT !.processed = Append(l.processed, l.key)])
      /\ UNCHANGED <<disk, index, blobs, hot, warm, stats, dbLock, gitOn, config,
                     calls, dbPools, connects>>

(***************************************************************************)
(* _remove_from_cache(file_path), called by update_from_git                *)
(***************************************************************************)
\* lines 1101-1103: without an index entry nothing is removed
RmLookup(t) ==
  LET l     == loc[t]
      entry == GetCacheEntry(l.key)
  IN  /\ pc[t] = "rm_lookup"
      /\ dbLock = Free
      /\ IF entry = None
         THEN Return(t, l, "not_cached", None, None)
         ELSE Goto(t, "rm_blob", [l EXCEPT !.entry = entry])
      /\ UNCHANGED <<disk, index, blobs, vulnLog, hot, warm, stats, dbLock,
                     gitOn, config, calls, dbPools, connects>>

\* lines 1106-1108: DELETE FROM partition_cache WHERE path = ?
RmBlob(t) ==
  LET l == loc[t]
  IN  /\ pc[t] = "rm_blob"
      /\ dbLock = Free
      /\ blobs' = [blobs EXCEPT ![The(l.entry).partition_key] = Drop(@, l.key)]
      /\ Goto(t, "rm_index", l)
      /\ GetDbConnection(PartitionDb(The(l.entry).partition_key))
      /\ UNCHANGED <<disk, index, vulnLog, hot, warm, stats, dbLock, gitOn,
                     config, calls>>

\* DELETE FROM vulnerabilities WHERE file_path = ?
DropVulnRows(log, key) == SelectSeq(log, LAMBDA r : r.file_path # key)

\* lines 1111-1114: the index row and the vulnerability rows
RmIndex(t) ==
  LET l == loc[t]
  IN  /\ pc[t] = "rm_index"
      /\ dbLock = Free
      /\ index' = Drop(index, l.key)
      /\ vulnLog' = DropVulnRows(vulnLog, l.key)
      /\ Goto(t, "rm_tiers", l)
      /\ UNCHANGED <<disk, blobs, hot, warm, stats, dbLock, gitOn, config,
                     calls, dbPools, connects>>

\* lines 1117-1119: both tiers
RmTiers(t) ==
  LET l == loc[t]
  IN  /\ pc[t] = "rm_tiers"
      /\ dbLock = Free
      /\ hot' = Without(hot, l.key)
      /\ warm' = Without(warm, l.key)
      /\ Return(t, l, "removed", l.entry, None)
      /\ UNCHANGED <<disk, index, blobs, vulnLog, stats, dbLock, gitOn, config,
                     calls, dbPools, connects>>

(***************************************************************************)
(* GitIntegration.get_changed_files and update_from_git(base, target)      *)
(***************************************************************************)
\* the diffs a sync is run over, each a sequence of lines
\* "status<TAB>path[<TAB>path]"
Diffs ==
  { <<>>,
    << <<"D", PathA>> >>,
    << <<"D", LinkA>> >>,
    << <<"T", PathB>> >>,
    << <<"M", PathA>>, <<"D", PathA>> >>,
    << <<"A", PathB>>, <<"R100", PathA, PathB>> >>,
    << <<"R100", PathA, PathB>> >> }

\* the first letter of a status field
FirstLetter(status) == IF status = "R100" THEN "R" ELSE status

\* _parse_change_type
ParseChangeType(status) ==
  CASE FirstLetter(status) = "A" -> "added"
    [] FirstLetter(status) = "M" -> "modified"
    [] FirstLetter(status) = "D" -> "deleted"
    [] FirstLetter(status) = "R" -> "renamed"
    [] OTHER                     -> "unknown"

\* lines 252-268: one GitChange per line, with the second field as its path
GetChangedFiles(lines) ==
  [i \in 1 .. Len(lines) |->
     [file_path |-> lines[i][2], change_type |-> ParseChangeType(lines[i][1])]]

\* the request set_repo(path)
SetGitRepo(t) ==
  /\ pc[t] = "idle"
  /\ ~gitOn
  /\ gitOn' = TRUE
  /\ UNCHANGED <<disk, index, blobs, vulnLog, hot, warm, stats, dbLock,
                 config, calls, pc, loc, res, dbPools, connects>>

\* lines 758-762: the request git_update(base, target) over a diff
UpdateFromGit(t, lines) ==
  LET l == [LocNull EXCEPT !.op = "sync"]
  IN  /\ pc[t] = "idle"
      /\ calls' = calls + 1
      /\ IF ~gitOn
         THEN Return(t, l, "no_git", None, None)
         ELSE Goto(t, "sync_next",
                   [l EXCEPT !.changes = GetChangedFiles(lines),
                             !.diff = GetChangedFiles(lines)])
      /\ UNCHANGED <<disk, index, blobs, vulnLog, hot, warm, stats, dbLock,
                     gitOn, config, dbPools, connects>>

\* a plausible slip: no change is taken for a deletion
IsDeletion_Never(c) == FALSE

\* line 765: change.change_type == 'deleted'
IsDeletion(c) == c.change_type = "deleted"

\* lines 764-770: the next change is removed or ingested again
SyncNext(t) ==
  LET l     == loc[t]
      c     == Head(l.changes)
      gone  == IsDeletion(c)
      frame == [l EXCEPT !.changes = Tail(l.changes),
                         !.caller = "sync",
                         !.processed =
                            Append(l.processed,
                                   [call |-> IF gone THEN "remove" ELSE "cache",
                                    path |-> c.file_path, force |-> ~gone])]
  IN  /\ pc[t] = "sync_next"
      /\ IF l.changes = <<>>
         THEN Return(t, l, "synced", None, None)
         ELSE IF gone
              THEN Goto(t, "rm_lookup",
                        [frame EXCEPT !.op = "remove", !.key = c.file_path])
              ELSE BeginCache(t, frame, c.file_path, TRUE)
      /\ UNCHANGED <<disk, index, blobs, vulnLog, hot, warm, stats, dbLock,
                     gitOn, config, calls, dbPools, connects>>

(***************************************************************************)
(* CacheSecurityDaemon._handle_clear(confirm)                              *)
(***************************************************************************)
\* lines 313-314: the request clear(confirm)
\* a plausible slip: the confirmation flag is not looked at
HandleClear_Unconfirmed(t, confirm) ==
  /\ pc[t] = "idle"
  /\ calls' = calls + 1
  /\ Goto(t, "cl_part", [LocNull EXCEPT !.op = "clear", !.force = confirm])
  /\ UNCHANGED <<disk, index, blobs, vulnLog, hot, warm, stats, dbLock,
                 gitOn, config, dbPools, connects>>

HandleClear(t, confirm) ==
  LET l == [LocNull EXCEPT !.op = "clear", !.force = confirm]
  IN  /\ pc[t] = "idle"
      /\ calls' = calls + 1
      /\ IF ~confirm
         THEN Return(t, l, "rejected", None, None)
         ELSE Goto(t, "cl_part", l)
      /\ UNCHANGED <<disk, index, blobs, vulnLog, hot, warm, stats, dbLock,
                     gitOn, config, dbPools, connects>>

\* lines 318-321: DELETE FROM partition_cache, one partition after another
ClearPartition(t) ==
  LET l == loc[t]
  IN  /\ pc[t] = "cl_part"
      /\ dbLock = Free
      /\ blobs' = [blobs EXCEPT ![l.part] = EmptyTable]
      /\ IF l.part = PartitionCount - 1
         THEN Goto(t, "cl_index", l)
         ELSE Goto(t, "cl_part", [l EXCEPT !.part = @ + 1])
      /\ GetDbConnection(PartitionDb(l.part))
      /\ UNCHANGED <<disk, index, vulnLog, hot, warm, stats, dbLock, gitOn,
                     config, calls>>

\* a plausible slip: the vulnerability log is left as it is
ClearIndex_KeepVulns(t) ==
  /\ pc[t] = "cl_index"
  /\ dbLock = Free
  /\ index' = EmptyTable
  /\ Goto(t, "cl_tiers", loc[t])
  /\ UNCHANGED <<disk, blobs, vulnLog, hot, warm, stats, dbLock, gitOn,
                 config, calls, dbPools, connects>>

\* lines 324-328: the index and the vulnerability log
ClearIndex(t) ==
  /\ pc[t] = "cl_index"
  /\ dbLock = Free
  /\ index' = EmptyTable
  /\ vulnLog' = <<>>
  /\ Goto(t, "cl_tiers", loc[t])
  /\ UNCHANGED <<disk, blobs, hot, warm, stats, dbLock, gitOn, config, calls, dbPools, connects>>

\* lines 331-334: both tiers, without _db_lock
ClearTiers(t) ==
  /\ pc[t] = "cl_tiers"
  /\ hot' = <<>>
  /\ warm' = <<>>
  /\ Return(t, loc[t], "success", None, None)
  /\ UNCHANGED <<disk, index, blobs, vulnLog, stats, dbLock, gitOn, config,
                 calls, dbPools, connects>>

(***************************************************************************)
(* _rebalance_partitions, a cycle of the rebalance worker                  *)
(***************************************************************************)
\* line 1017: SELECT SUM(size) FROM partition_cache; "or 0" for no rows
RECURSIVE SumSizes(_, _)
SumSizes(table, keys) ==
  IF keys = {} THEN 0
  ELSE LET k == CHOOSE x \in keys : TRUE
       IN  table[k].size + SumSizes(table, keys \ {k})

PartitionSize(i) == SumSizes(blobs[i], DOMAIN blobs[i])

Max(list) == CHOOSE x \in Range(list) : \A y \in Range(list) : y <= x
Min(list) == CHOOSE x \in Range(list) : \A y \in Range(list) : x <= y

\* line 1026: not sizes or max(sizes) / (min(sizes) + 1) < 2
Balanced(sizes) == sizes = <<>> \/ Max(sizes) < 2 * (Min(sizes) + 1)

\* the cycle starts
RebalancePartitions(t) ==
  /\ pc[t] = "idle"
  /\ calls' = calls + 1
  /\ Goto(t, "rb_part", [LocNull EXCEPT !.op = "rebalance"])
  /\ UNCHANGED <<disk, index, blobs, vulnLog, hot, warm, stats, dbLock,
                 gitOn, config, dbPools, connects>>

\* lines 1015-1022: the statistics of one partition; the query can fail
\* (sqlite3.Error), which ends the cycle in the worker's except clause
RbPartition(t) ==
  LET l == loc[t]
  IN  /\ pc[t] = "rb_part"
      /\ dbLock = Free
      /\ \/ IF l.part = PartitionCount - 1
            THEN Goto(t, "rb_check",
                      [l EXCEPT !.sizes = Append(@, PartitionSize(l.part))])
            ELSE Goto(t, "rb_part",
                      [l EXCEPT !.sizes = Append(@, PartitionSize(l.part)),
                                !.part = @ + 1])
         \/ Return(t, l, "error", None, None)
      /\ GetDbConnection(PartitionDb(l.part))
      /\ UNCHANGED <<disk, index, blobs, vulnLog, hot, warm, stats, dbLock,
                     gitOn, config, calls>>

\* a plausible slip: the cycle empties the largest partition
RbCheck_Moves(t) ==
  LET l == loc[t]
  IN  /\ pc[t] = "rb_check"
      /\ blobs' = IF Balanced(l.sizes) THEN blobs
                  ELSE [i \in Partitions |->
                          IF PartitionSize(i) = Max(l.sizes)
                          THEN EmptyTable ELSE blobs[i]]
      /\ Return(t, l, IF Balanced(l.sizes) THEN "balanced" ELSE "imbalanced",
                None, None)
      /\ UNCHANGED <<disk, index, vulnLog, hot, warm, stats, dbLock,
                     gitOn, config, calls, dbPools, connects>>

\* lines 1025-1032: the check; the rebalancing itself is a TODO
RbCheck(t) ==
  LET l == loc[t]
  IN  /\ pc[t] = "rb_check"
      /\ Return(t, l, IF Balanced(l.sizes) THEN "balanced" ELSE "imbalanced",
                None, None)
      /\ UNCHANGED <<disk, index, blobs, vulnLog, hot, warm, stats, dbLock,
                     gitOn, config, calls, dbPools, connects>>

RebalanceSteps(t) == RbPartition(t) \/ RbCheck(t)

(***************************************************************************)
(* warm_cache_parallel(patterns).  The calls submitted to the executor are *)
(* taken one after another, in the order in which they complete.           *)
(***************************************************************************)
GlobTmpPy  == "/tmp/*.py"
GlobTmpAll == "/tmp/*"
GlobLinkPy == "/tmp/l/*.py"
GlobEtcPy  == "/etc/*.py"
Globs == {GlobTmpPy, GlobTmpAll, GlobLinkPy, GlobEtcPy}

\* path.exists() and path.is_file()
Exists(raw) == Stat(Resolve(raw)) # None

\* glob.glob(pattern, recursive=True): the names that match, as spelled
Glob(pattern) ==
  LET names == CASE pattern = GlobTmpPy  -> {PathA}
                 [] pattern = GlobTmpAll -> {PathA, PathB}
                 [] pattern = GlobLinkPy -> {LinkA}
                 [] OTHER                -> {PathOut}
  IN  {raw \in names : Exists(raw)}

\* config["allowed_extensions"]
AllowedExtensions ==
  {".py", ".js", ".ts", ".java", ".cs", ".go", ".php", ".rb", ".c", ".cpp",
   ".h", ".hpp", ".rs", ".swift", ".kt", ".yml", ".yaml", ".json", ".xml",
   ".conf", ".ini", ".md", ".txt", ".sql", ".sh", ".bash", ".ps1"}

\* _should_cache_file
ShouldCacheFile(raw) ==
  /\ Exists(raw)
  /\ Suffix(Resolve(raw)) \in AllowedExtensions
  /\ Len(The(Stat(Resolve(raw))).content) <= MaxFileSize
  /\ ValidatePath(raw)

\* lines 778-781: all_files.extend(glob.glob(pattern)) for every pattern
RECURSIVE GlobAll(_)
GlobAll(patterns) ==
  IF patterns = <<>> THEN {}
  ELSE Glob(Head(patterns)) \cup GlobAll(Tail(patterns))

\* the lists with the elements of S, each once
Orderings(S) ==
  {f \in [1 .. Cardinality(S) -> S] :
     \A i, j \in 1 .. Cardinality(S) : f[i] = f[j] => i = j}

\* a plausible slip: the concatenated glob results, filtered, with no set()
RECURSIVE AllFiles_NoSet(_)
AllFiles_NoSet(patterns) ==
  IF patterns = <<>> THEN {<<>>}
  ELSE {a \o b :
          a \in Orderings({raw \in Glob(Head(patterns)) :
                             ShouldCacheFile(raw)}),
          b \in AllFiles_NoSet(Tail(patterns))}

\* lines 783-784: list(set(all_files)), filtered; a set has no fixed order
AllFiles(patterns) ==
  Orderings({raw \in GlobAll(patterns) : ShouldCacheFile(raw)})

\* the request warm(patterns)
WarmCacheParallel(t, patterns) ==
  /\ pc[t] = "idle"
  /\ calls' = calls + 1
  /\ \E files \in AllFiles(patterns) :
       Goto(t, "warm_next",
            [LocNull EXCEPT !.op = "warm", !.patterns = patterns,
                            !.diff = files, !.files = files])
  /\ UNCHANGED <<disk, index, blobs, vulnLog, hot, warm, stats, dbLock,
                 gitOn, config, dbPools, connects>>

\* lines 811-818: the result
WarmReport(l) ==
  [files_processed |-> Len(l.diff), files_cached |-> l.cached,
   errors |-> l.errors]

\* lines 791-805: the next submitted call; future.result() raises nothing,
\* cache_file_enhanced catches every exception itself
WarmNext(t) ==
  LET l == loc[t]
  IN  /\ pc[t] = "warm_next"
      /\ IF l.files = <<>>
         THEN /\ pc' = [pc EXCEPT ![t] = "idle"]
              /\ loc' = [loc EXCEPT ![t] = LocNull]
              /\ res' = [res EXCEPT ![t] =
                           [ResNull EXCEPT
                              !.op = "warm", !.outcome = "completed",
                              !.patterns = l.patterns,
                              !.processed = l.processed,
                              !.report = Some(WarmReport(l))]]
         ELSE BeginCache(t, [l EXCEPT !.files = Tail(l.files),
                                      !.caller = "warm",
                                      !.processed =
                                         Append(l.processed, Head(l.files))],
                         Head(l.files), FALSE)
      /\ UNCHANGED <<disk, index, blobs, vulnLog, hot, warm, stats, dbLock,
                     gitOn, config, calls, dbPools, connects>>

(***************************************************************************)
(* The specifications.                                                     *)
(***************************************************************************)
CacheSteps(t) ==
  \/ CfLookup(t) \/ CfBump(t) \/ CfRead(t) \/ CfBuild(t)
  \/ CfStore(t) \/ CfIndex(t) \/ CfTiers(t) \/ CfVulns(t)

GetSteps(t) == GetLookup(t) \/ ReadCachedContent(t)

ScanSteps(t) == ScanNext(t) \/ ScanUpdate(t) \/ ScanVulns(t)

RemoveSteps(t) == RmLookup(t) \/ RmBlob(t) \/ RmIndex(t) \/ RmTiers(t)

ClearSteps(t) == ClearPartition(t) \/ ClearIndex(t) \/ ClearTiers(t)

\* no request is being served
Quiet == \A t \in Threads : pc[t] = "idle"

\* the file system changes, between two requests
FileEnv ==
  \/ \E c \in Contents, m \in 1 .. MaxMtime : Quiet /\ WriteFile(PathA, c, m)
  \/ Quiet /\ DeleteFile(PathA)

\* Spec: the requests cache, get, scan and clear, one at a time, the files
\* changing between requests
Request(t) ==
  \/ \E raw \in RawPaths, force \in BOOLEAN :
       calls < MaxCalls /\ CacheFile(t, raw, force)
  \/ \E raw \in RawPaths : calls < MaxCalls /\ GetCachedContent(t, raw)
  \/ calls < MaxCalls /\ ScanAllVulnerabilities(t)
  \/ \E confirm \in BOOLEAN : calls < MaxCalls /\ HandleClear(t, confirm)

Next ==
  \/ FileEnv
  \/ ExpireWarm
  \/ Restart
  \/ Request(1)
  \/ CacheSteps(1) \/ GetSteps(1) \/ ScanSteps(1) \/ ClearSteps(1)

Spec == Init /\ [][Next]_vars

\* GitSpec: the requests cache, set_repo and git_update, one at a time
GitRequest(t) ==
  \/ \E raw \in Paths, force \in BOOLEAN :
       calls < MaxCalls /\ CacheFile(t, raw, force)
  \/ SetGitRepo(t)
  \/ \E lines \in Diffs : calls < MaxCalls /\ UpdateFromGit(t, lines)

GitNext ==
  \/ FileEnv
  \/ Restart
  \/ GitRequest(1)
  \/ CacheSteps(1) \/ RemoveSteps(1) \/ SyncNext(1)

GitSpec == Init /\ [][GitNext]_vars

\* ConcSpec: two clients at once (the daemon serves each connection on a
\* thread of its own); both cache one source file and run git_update over
\* the diff that deletes it
ConcDiff == << <<"D", PathA>> >>

ConcRequest(t) ==
  \/ \E force \in BOOLEAN : calls < MaxConcCalls /\ CacheFile(t, PathA, force)
  \/ SetGitRepo(t)
  \/ calls < MaxConcCalls /\ UpdateFromGit(t, ConcDiff)

ConcNext ==
  \/ \E m \in 1 .. MaxMtime : Quiet /\ WriteFile(PathA, TextPw, m)
  \/ \E t \in Clients :
        \/ ConcRequest(t)
        \/ CacheSteps(t) \/ RemoveSteps(t) \/ SyncNext(t)

ConcSpec == Init /\ [][ConcNext]_vars

(***************************************************************************)
(* Two clients whose cache calls run side by side, on the same path or on  *)
(* different ones; the file is rewritten between calls.                    *)
(***************************************************************************)
RaceRequest(t) ==
  \E p \in Paths, force \in BOOLEAN :
    calls < MaxRaceCalls /\ CacheFile(t, p, force)

RaceNext ==
  \/ \E m \in 1..MaxMtime : Quiet /\ WriteFile(PathA, TextPw, m)
  \/ \E t \in Clients : \/ RaceRequest(t)
                         \/ CacheSteps(t)

RaceSpec == Init /\ [][RaceNext]_vars

(***************************************************************************)
(* One client ingesting PathA while the file is rewritten at any moment,   *)
(* each time with another content and a strictly newer modification time.  *)
(***************************************************************************)
RewriteFile(p) ==
  \E c \in {TextPw, TextBig} :
    IF disk[p] = None
    THEN WriteFile(p, c, 1)
    ELSE /\ The(disk[p]).mtime < MaxMtime
         /\ c # The(disk[p]).content
         /\ WriteFile(p, c, The(disk[p]).mtime + 1)

RewriteRequest(t) ==
  \E force \in BOOLEAN : calls < MaxRewriteCalls /\ CacheFile(t, PathA, force)

RewriteNext ==
  \/ RewriteFile(PathA)
  \/ RewriteRequest(1)
  \/ CacheSteps(1)

RewriteSpec == Init /\ [][RewriteNext]_vars

(***************************************************************************)
(* One client warming the cache while files come and go.                   *)
(***************************************************************************)
PatternLists ==
  {<<g>> : g \in Globs} \cup {<<g, h>> : g \in Globs, h \in Globs}

WarmRequest(t) ==
  \E patterns \in PatternLists :
    calls < MaxWarmCalls /\ WarmCacheParallel(t, patterns)

WarmEnv ==
  \/ \E m \in 1..MaxMtime : WriteFile(PathA, TextPw, m)
  \/ DeleteFile(PathA)

WarmSpecNext ==
  \/ WarmEnv
  \/ WarmRequest(1)
  \/ WarmNext(1)
  \/ CacheSteps(1)

WarmSpec == Init /\ [][WarmSpecNext]_vars

(***************************************************************************)
(* The three maintenance loops of _start_background_workers, each on a     *)
(* thread of its own, beside the main thread.  A loop that sleeps is idle; *)
(* a cycle is the operation the loop calls.                                *)
(***************************************************************************)
MainThread      == 1
UpdateThread    == 2
ScanThread      == 3
RebalanceThread == 4
Workers == {UpdateThread, ScanThread, RebalanceThread}

\* the diffs a sync cycle finds: the source file was modified or deleted
WorkerDiffs == { << <<"M", PathA>> >>, << <<"D", PathA>> >> }

\* the main thread serves cache requests for the source file
MainRequest ==
  calls < MaxWorkerCalls /\ CacheFile(MainThread, PathA, FALSE)

\* the source file appears
WorkerEnv ==
  \E c \in {TextPw, TextBig} :
    disk[PathA] = None /\ WriteFile(PathA, c, 1)

\* lines 537-543: "if self.git_integration: self.update_from_git()"
UpdateCycle ==
  /\ calls < MaxWorkerCalls
  /\ gitOn
  /\ \E lines \in WorkerDiffs : UpdateFromGit(UpdateThread, lines)

\* lines 549-553
ScanCycle == calls < MaxWorkerCalls /\ ScanAllVulnerabilities(ScanThread)

\* lines 560-564
RebalanceCycle ==
  calls < MaxWorkerCalls /\ RebalancePartitions(RebalanceThread)

WorkerNext ==
  \/ WorkerEnv
  \/ SetGitRepo(MainThread)
  \/ MainRequest
  \/ CacheSteps(MainThread)
  \/ UpdateCycle
  \/ CacheSteps(UpdateThread) \/ RemoveSteps(UpdateThread)
  \/ SyncNext(UpdateThread)
  \/ ScanCycle
  \/ GetSteps(ScanThread) \/ ScanSteps(ScanThread)
  \/ RebalanceCycle
  \/ RebalanceSteps(RebalanceThread)

WorkerSpec == Init /\ [][WorkerNext]_vars

(***************************************************************************)
(* Two clients whose cache, get and check commands run side by side.       *)
(***************************************************************************)
CheckRequest(t) ==
  \/ \E p \in Paths : calls < MaxCheckCalls /\ CacheFile(t, p, FALSE)
  \/ calls < MaxCheckCalls /\ GetCachedContent(t, PathA)
  \/ \E raw \in {PathA, LinkA} : calls < MaxCheckCalls /\ HandleCheck(t, raw)

CheckNext ==
  \/ Quiet /\ WriteFile(PathA, TextPw, 1)
  \/ ExpireWarm
  \/ Quiet /\ Restart
  \/ \E t \in Clients : \/ CheckRequest(t)
                         \/ CacheSteps(t) \/ GetSteps(t) \/ CheckSteps(t)

CheckSpec == Init /\ [][CheckNext]_vars

(***************************************************************************)
(* Two clients that cache the same unchanging file side by side, the       *)
(* counter update of a fresh hit taken statement by statement.  Each       *)
(* request increments one counter once: cached_files when it ingests,      *)
(* cache_hits when the entry is fresh.                                     *)
(***************************************************************************)
CounterRequest(t) == calls < MaxCounterCalls /\ CacheFile(t, PathB, FALSE)

CounterNext ==
  \E t \in Clients :
    \/ CounterRequest(t)
    \/ CfLookup(t) \/ CfBumpRow(t) \/ CfHitsLoad(t) \/ CfHitsStore(t)
    \/ CfRead(t) \/ CfBuild(t) \/ CfStore(t) \/ CfIndex(t) \/ CfTiers(t)

CounterSpec == Init /\ [][CounterNext]_vars

(***************************************************************************)
(* Two threads issuing cache(PathB, force=false) once PathB is cached and  *)
(* no ingestion is in flight: every call takes the fresh path.             *)
(***************************************************************************)
\* the entry of PathB as the first cache(PathB) builds it
FirstEntryB ==
  BuildEntry(PathB, TextPw, [content |-> TextPw, mtime |-> 1], 1)

\* the state in which the first request, cache(PathB) by thread 1, has
\* returned
FreshInit ==
  /\ config = DefaultConfig
  /\ disk = [p \in Files |-> IF p = PathA
                              THEN None
                              ELSE Some([content |-> TextPw, mtime |-> 1])]
  /\ index = Upsert(EmptyTable, PathB, FirstEntryB)
  /\ blobs = [q \in Partitions |->
                IF q = FirstEntryB.partition_key
                THEN Upsert(EmptyTable, PathB,
                            BlobRow(FirstEntryB, EncodeBlob(TextPw)))
                ELSE EmptyTable]
  /\ vulnLog = <<>>
  /\ hot = HotSet(<<>>, FirstEntryB)
  /\ warm = WarmSet(<<>>, FirstEntryB)
  /\ stats = [cache_hits |-> 0, cached_files |-> 1, errors |-> 0]
  /\ dbLock = Free
  /\ gitOn = FALSE
  /\ calls = 1
  /\ pc = [t \in Threads |-> "idle"]
  /\ loc = [t \in Threads |-> LocNull]
  /\ res = [t \in Threads |->
              IF t = 1
              THEN [ResNull EXCEPT !.op = "cache", !.key = PathB,
                                   !.outcome = "ingested",
                                   !.entry = Some(FirstEntryB)]
              ELSE ResNull]
  /\ dbPools = PoolAfter(PoolsAfterInit, ConnectsAfterInit,
                         PartitionDb(FirstEntryB.partition_key))
  /\ connects = ConnectsAfter(PoolsAfterInit, ConnectsAfterInit, dbPools,
                              PartitionDb(FirstEntryB.partition_key))

FreshRequest(t) == calls < MaxFreshCalls /\ CacheFile(t, PathB, FALSE)

FreshNext ==
  \E t \in Clients :
    \/ FreshRequest(t)
    \/ CfLookup(t) \/ CfBumpRow(t) \/ CfHitsLoad(t) \/ CfHitsStore(t)

FreshSpec == FreshInit /\ [][FreshNext]_vars

(***************************************************************************)
(* The two tiers alone, over more keys than they hold: the statements of   *)
(* the engine that read and write _memory_cache and _ttl_cache, with the   *)
(* capacities scaled to TierHotSize and TierWarmSize.                      *)
(***************************************************************************)
TierKeys == RawPaths \cup Files

\* the entry cached under key k at the current time
TierEntry(k) == [path |-> k, cached_time |-> Now]

\* lines 655-657 of cache_file_enhanced
TierPut(k) ==
  /\ calls < MaxTierCalls
  /\ calls' = calls + 1
  /\ hot' = TierSet(hot, TierEntry(k), TierHotSize)
  /\ warm' = TierSet(warm, TierEntry(k), TierWarmSize)
  /\ UNCHANGED <<disk, index, blobs, vulnLog, stats, dbLock, gitOn, config,
                 pc, loc, res, dbPools, connects>>

\* lines 929-936 of get_cached_content: a hot hit is touched, a warm hit is
\* promoted
TierGet(k) ==
  /\ k \in Keys(hot) \cup Keys(warm)
  /\ hot' = IF k \in Keys(hot) THEN HotTouch(hot, k)
            ELSE TierSet(hot, The(Lookup(warm, k)), TierHotSize)
  /\ UNCHANGED <<disk, index, blobs, vulnLog, warm, stats, dbLock, gitOn,
                 config, calls, pc, loc, res, dbPools, connects>>

\* lines 1117-1119 of _remove_from_cache
TierPop(k) ==
  /\ k \in Keys(hot) \cup Keys(warm)
  /\ hot' = Without(hot, k)
  /\ warm' = Without(warm, k)
  /\ UNCHANGED <<disk, index, blobs, vulnLog, stats, dbLock, gitOn, config,
                 calls, pc, loc, res, dbPools, connects>>

\* lines 331-334 of CacheSecurityDaemon._handle_clear
TierClear ==
  /\ hot # <<>> \/ warm # <<>>
  /\ hot' = <<>>
  /\ warm' = <<>>
  /\ UNCHANGED <<disk, index, blobs, vulnLog, stats, dbLock, gitOn, config,
                 calls, pc, loc, res, dbPools, connects>>

TierNext ==
  \/ \E k \in TierKeys : TierPut(k)
  \/ \E k \in TierKeys : TierGet(k)
  \/ \E k \in TierKeys : TierPop(k)
  \/ TierClear
  \/ ExpireWarm

TierSpec == Init /\ [][TierNext]_vars

(***************************************************************************)
(* get_performance_metrics, beside cache calls that move the counters.     *)
(* A quotient is kept as numerator and denominator.                        *)
(***************************************************************************)
\* self.stats.get(name, default): self.stats holds the keys written so far
StatsGet(name, default) ==
  IF name \in DOMAIN stats THEN stats[name] ELSE default

\* lines 1037-1038: (hits / (hits + stats.get('cache_misses', 1))) * 100
HitRate ==
  [num |-> 100 * stats.cache_hits,
   den |-> stats.cache_hits + StatsGet("cache_misses", 1)]

\* lines 1051-1058: the counters of the result
Metrics ==
  [cache_hits       |-> stats.cache_hits,
   cache_misses     |-> StatsGet("cache_misses", 0),
   hit_rate_percent |-> HitRate,
   cached_files     |-> StatsGet("cached_files", 0),
   errors           |-> StatsGet("errors", 0)]

\* the request stats: a zero denominator raises ZeroDivisionError
GetPerformanceMetrics(t) ==
  /\ pc[t] = "idle"
  /\ dbLock = Free
  /\ calls' = calls + 1
  /\ res' = [res EXCEPT ![t] =
               IF HitRate.den = 0
               THEN [ResNull EXCEPT !.op = "metrics", !.outcome = "error"]
               ELSE [ResNull EXCEPT !.op = "metrics", !.outcome = "ok",
                                    !.metrics = Some(Metrics)]]
  /\ IF HitRate.den = 0
     THEN UNCHANGED <<dbPools, connects>>
     ELSE /\ dbPools' = [f \in DbFiles |->
                          IF f = IndexDb THEN dbPools[f]
                          ELSE PoolAfter(dbPools, connects, f)[f]]
          /\ connects' = [f \in DbFiles |->
                           ConnectsAfter(dbPools, connects, dbPools', f)[f]]
  /\ UNCHANGED <<disk, index, blobs, vulnLog, hot, warm, stats, dbLock,
                 gitOn, config, pc, loc>>

MetricsRequest(t) ==
  \/ \E raw \in Paths, force \in BOOLEAN :
       calls < MaxMetricsCalls /\ CacheFile(t, raw, force)
  \/ calls < MaxMetricsCalls /\ GetPerformanceMetrics(t)

MetricsNext ==
  \/ FileEnv
  \/ MetricsRequest(1)
  \/ CacheSteps(1)

MetricsSpec == Init /\ [][MetricsNext]_vars

(***************************************************************************)
(* The analyzer alone: analyze_content applied to contents of up to        *)
(* MaxTextLen blocks over a choice of patterns of every severity, for a    *)
(* source path and a documentation path.                                   *)
(***************************************************************************)
\* matches of two HIGH patterns, two CRITICAL, one MEDIUM and one LOW
AnalyzeBlocks == {1, 2, 6, 8, 9, 11}

AnalyzeTexts == UNION {[1 .. n -> AnalyzeBlocks] : n \in 0 .. MaxTextLen}

AnalyzeInit ==
  /\ InitStores
  /\ config = DefaultConfig
  /\ \E text \in AnalyzeTexts, p \in Paths :
       loc = [t \in Threads |->
                IF t = 1
                THEN [LocNull EXCEPT !.op = "analyze", !.key = p, !.text = text]
                ELSE LocNull]

\* analyze_content(content, file_path): the score and the findings
AnalyzeContent(t) ==
  LET l == loc[t]
  IN  /\ l.op = "analyze"
      /\ res' = [res EXCEPT ![t] =
                   [ResNull EXCEPT
                      !.op = "analyze", !.key = l.key,
                      !.content = Some(l.text),
                      !.entry = Some([security_score |->
                                        AnalyzeScore(l.text, l.key),
                                      vulnerabilities |->
                                        AnalyzeFindings(l.text, l.key)])]]
      /\ UNCHANGED <<disk, index, blobs, vulnLog, hot, warm, stats, dbLock,
                     gitOn, config, calls, pc, loc, dbPools, connects>>

\* the analysed content gets one more match of pattern k
AppendMatch(t, k) ==
  LET l == loc[t]
  IN  /\ l.op = "analyze"
      /\ res[t].op = "analyze"
      /\ res[t].content = Some(l.text)
      /\ Len(l.text) < MaxTextLen
      /\ loc' = [loc EXCEPT ![t].text = Append(l.text, k)]
      /\ UNCHANGED <<disk, index, blobs, vulnLog, hot, warm, stats, dbLock,
                     gitOn, config, calls, pc, res, dbPools, connects>>

AnalyzeNext ==
  \/ AnalyzeContent(1)
  \/ \E k \in AnalyzeBlocks : AppendMatch(1, k)

AnalyzeSpec == AnalyzeInit /\ [][AnalyzeNext]_vars

(***************************************************************************)
(* One client, with the engine constructed from any configuration file:    *)
(* security analysis enabled or disabled.                                  *)
(***************************************************************************)
ConfigInit ==
  /\ InitStores
  /\ config \in Configs
  /\ loc = [t \in Threads |-> LocNull]

ConfigRequest(t) ==
  \/ \E raw \in Paths, force \in BOOLEAN :
       calls < MaxCalls /\ CacheFile(t, raw, force)
  \/ calls < MaxCalls /\ ScanAllVulnerabilities(t)

ConfigNext ==
  \/ FileEnv
  \/ Restart
  \/ ConfigRequest(1)
  \/ CacheSteps(1)
  \/ GetSteps(1)
  \/ ScanSteps(1)

ConfigSpec == ConfigInit /\ [][ConfigNext]_vars

(***************************************************************************)
(* A client that caches the source file while the re-scan runs on a thread *)
(* of its own, with security analysis on or off.                           *)
(***************************************************************************)
RescanRequest ==
  \/ \E force \in BOOLEAN :
       calls < MaxRescanCalls /\ CacheFile(MainThread, PathA, force)
  \/ calls < MaxRescanCalls /\ ScanAllVulnerabilities(ScanThread)

RescanNext ==
  \/ WorkerEnv
  \/ RescanRequest
  \/ CacheSteps(MainThread)
  \/ GetSteps(ScanThread) \/ ScanSteps(ScanThread)

RescanSpec == ConfigInit /\ [][RescanNext]_vars

(***************************************************************************)
(* The claims.                                                             *)
(***************************************************************************)
\* key is held by one of the two tiers
Tiered(key) == key \in Keys(hot) \cup Keys(warm)

\* the file of a path is there and no larger than the ingestion ceiling
FileOk(p) == Stat(p) # None /\ Len(The(Stat(p)).content) <= MaxFileSize

\* the steps of an ingestion
IngestLabels ==
  {"cf_read", "cf_build", "cf_store", "cf_index", "cf_tiers", "cf_vulns"}

\* C1: get_cached_content(p) for a path held by the hot or the warm tier
\* terminates with the stored bytes: once the tier lookup has hit, the read
\* of the blob can be taken (it does not wait for a lock of the engine that
\* will not be released), and it yields the bytes stored for p.
C1_TierHitIsAnswered ==
  \A t \in Threads :
    (pc[t] = "g_read" /\ loc[t].op = "get" /\ Tiered(loc[t].key))
      => /\ ENABLED ReadCachedContent(t)
         /\ loc[t].key \in DOMAIN index
              => ReadBlob(The(loc[t].entry)) # None

\* C2: a re-scan, whatever the state it starts in, runs to completion: while
\* it is under way its next step can always be taken; and once it has
\* completed, the score and the findings of every source row of the index
\* are those of the content cached for it.
C2_RescanCompletes ==
  \A t \in Threads :
    /\ (loc[t].op = "scan" /\ pc[t] # "idle")
         => ENABLED (ScanSteps(t) \/ GetSteps(t))
    /\ (res[t].op = "scan" /\ res[t].outcome = "completed" /\ pc[t] = "idle")
         => \A p \in DOMAIN index :
              (index[p].file_type = "source" /\ Truthy(ReadBlob(index[p])))
                => LET text == DecodeText(The(ReadBlob(index[p])))
                   IN  /\ index[p].security_score = AnalyzeScore(text, p)
                       /\ index[p].vulnerabilities = AnalyzeFindings(text, p)

\* C3: a cache(p, force=false) that finds a fresh entry changes, of the
\* stores and the tiers, only the access count (+1) and the last-accessed
\* time of p's index row: every other field of the row, every other row, the
\* blobs, the vulnerability log, both tiers and the file are as they were.
\* (Of the counters, the hit counter goes up by one.)
C3_FreshPathFrame ==
  [][\A t \in Threads :
       /\ (pc[t] = "cf_lookup" /\ pc'[t] = "cf_bump")
            => UNCHANGED <<disk, index, blobs, vulnLog, hot, warm, stats>>
       /\ (pc[t] = "cf_bump" /\ pc'[t] = "idle" /\ res'[t].outcome = "fresh")
            => LET p == Resolve(loc[t].key)
               IN  /\ UNCHANGED <<disk, blobs, vulnLog, hot, warm>>
                   /\ p \in DOMAIN index
                   /\ index' = [index EXCEPT ![p] =
                                  [index[p] EXCEPT
                                     !.access_count = index[p].access_count + 1,
                                     !.last_accessed = Now]]
                   /\ stats' = [stats EXCEPT !.cache_hits = stats.cache_hits + 1]
    ]_vars

\* a fresh hit has been served: the row counts two accesses
C3_Witness ==
  /\ res[1].op = "cache" /\ res[1].outcome = "fresh" /\ pc[1] = "idle"
  /\ index[Resolve(res[1].key)].access_count = 2
  /\ Tiered(Resolve(res[1].key))

\* C4: when a file that does not change is cached twice without force, the
\* entry the second call returns has the access count of the entry the first
\* call returned plus one, and the same checksum.
C4_SecondCallCountsOn ==
  [][\A t \in Threads :
       (/\ pc[t] \in {"cf_bump", "cf_tiers", "cf_vulns"} /\ pc'[t] = "idle"
        /\ res'[t].op = "cache" /\ res'[t].entry # None /\ ~res'[t].force
        /\ res[t].op = "cache" /\ res[t].entry # None /\ ~res[t].force
        /\ Resolve(res[t].key) = Resolve(res'[t].key))
         => /\ The(res'[t].entry).access_count
                 = The(res[t].entry).access_count + 1
            /\ The(res'[t].entry).checksum = The(res[t].entry).checksum
    ]_vars

\* the condition of C5, in the state in which the call decides
MustReingest(l) ==
  LET p == Resolve(l.key)
  IN  \/ l.force
      \/ p \notin DOMAIN index
      \/ Stat(p) # None /\ index[p].modified_time < The(Stat(p)).mtime

\* the step with which a cache request of thread t returns to its client
CacheReturns(t) ==
  /\ pc'[t] = "idle"
  /\ res'[t].op = "cache"
  /\ pc[t] \in IngestLabels \cup {"cf_lookup", "cf_bump"} \/ calls' = calls + 1

\* the return of a full re-ingestion: the file was read and scored again,
\* its blob and its index row written again
ReingestedReturn(t) ==
  LET p == Resolve(res'[t].key)
      e == The(res'[t].entry)
      c == The(Stat(p)).content
  IN  /\ pc[t] \in IngestLabels
      /\ res'[t].outcome = "ingested"
      /\ res'[t].entry # None
      /\ Stat(p) # None
      /\ e.checksum = Sha256(c)
      /\ e.security_score =
           (IF e.file_type = "source" THEN AnalyzeScore(DecodeText(c), p) ELSE 100)
      /\ p \in DOMAIN index' /\ index'[p] = e
      /\ p \in DOMAIN blobs'[e.partition_key]
      /\ DecodeBlob(blobs'[e.partition_key][p]) = Some(c)

\* the return of the fresh path: the entry that was there
FreshReturn(t) ==
  /\ pc[t] = "cf_bump"
  /\ res'[t].outcome = "fresh"
  /\ res'[t].entry = Some(index[Resolve(res'[t].key)])

\* the ingestion is entered only under the condition, the fresh path only
\* without it
DecidesByCondition(t) ==
  /\ (pc[t] \in {"idle", "cf_lookup"} /\ pc'[t] = "cf_read")
       => MustReingest(loc'[t])
  /\ (pc[t] = "cf_lookup" /\ pc'[t] = "cf_bump")
       => ~MustReingest(loc'[t])

C6_RoundTrip ==
  \A t \in Threads :
    (res[t].op = "cache" /\ res[t].outcome = "ingested") =>
      LET p == The(res[t].entry).path
      IN  /\ pc[t] = "idle" =>
                /\ p \in DOMAIN index
                /\ BlobPartitions(p) # {}
                /\ \A q \in BlobPartitions(p) :
                     /\ DecodeBlob(blobs[q][p]) # None
                     /\ Sha256(The(DecodeBlob(blobs[q][p]))) = index[p].checksum
          /\ (pc[t] = "g_read" /\ loc[t].op = "get" /\ loc[t].key = p) =>
                /\ ENABLED ReadCachedContent(t)
                /\ Stat(p) # None
                /\ ReadBlob(The(loc[t].entry)) = Some(The(Stat(p)).content)

\* C7: when the removal that git_update runs for a deleted path p has
\* returned, p has no index row, no blob in any partition and no row in the
\* vulnerability log, whatever was stored for p when the removal began.
C7_DeletionRemovesEverything ==
  [][\A t \in Threads :
       (pc[t] \in {"rm_lookup", "rm_tiers"} /\ pc'[t] = "sync_next")
         => LET p == loc[t].key
            IN  /\ p \notin DOMAIN index'
                /\ \A q \in Partitions : p \notin DOMAIN blobs'[q]
                /\ \A i \in 1 .. Len(vulnLog') : vulnLog'[i].file_path # p
    ]_vars

\* C8: when the removal that git_update runs for a deleted path p has
\* returned (and no other thread is in the middle of a request), neither
\* tier holds p, whatever the index held for p when the removal began.
C8_DeletionEmptiesTiers ==
  [][\A t \in Threads :
       (/\ pc[t] \in {"rm_lookup", "rm_tiers"} /\ pc'[t] = "sync_next"
        /\ \A u \in Threads \ {t} : pc[u] = "idle")
         => /\ loc[t].key \notin Keys(hot')
            /\ loc[t].key \notin Keys(warm')
    ]_vars

\* the call C9 expects for a change record
ExpectedCall(c) ==
  [call  |-> IF c.change_type = "deleted" THEN "remove" ELSE "cache",
   path  |-> c.file_path,
   force |-> c.change_type # "deleted"]

ExpectedCalls(changes) ==
  [i \in 1 .. Len(changes) |-> ExpectedCall(changes[i])]

\* thread t runs git_update, or a call git_update has made
InSync(t) == loc[t].op = "sync" \/ loc[t].caller = "sync"

\* C9: git_update handles the change records of the diff one by one in the
\* order of the diff, none twice and none left out: the calls made so far,
\* followed by the calls due for the records not yet handled, are the calls
\* due for the diff; the call under way is the last one recorded, a removal
\* for a deleted record and a cache_file with force for any other; and the
\* run can always take its next step.
C9_EveryChangeInOrder ==
  \A t \in Threads :
    InSync(t) =>
      /\ loc[t].processed \o ExpectedCalls(loc[t].changes)
           = ExpectedCalls(loc[t].diff)
      /\ loc[t].op = "remove" =>
           /\ loc[t].processed # <<>>
           /\ loc[t].processed[Len(loc[t].processed)]
                = [call |-> "remove", path |-> loc[t].key, force |-> FALSE]
      /\ loc[t].op = "cache" =>
           /\ loc[t].force
           /\ loc[t].processed # <<>>
           /\ loc[t].processed[Len(loc[t].processed)]
                = [call |-> "cache", path |-> loc[t].key, force |-> TRUE]
      /\ ENABLED (CacheSteps(t) \/ RemoveSteps(t) \/ SyncNext(t))

\* a diff of two records has been handled: an ingestion, then a removal
C9_Witness ==
  /\ pc[1] = "sync_next" /\ loc[1].changes = <<>>
  /\ Len(loc[1].diff) = 2
  /\ Len(loc[1].processed) = 2
  /\ loc[1].processed[1].call = "cache"
  /\ loc[1].processed[2].call = "remove"

\* C10: when clear(confirm=true) has returned success and nothing else is in
\* flight, no partition holds a blob, the index holds no entry row and no
\* vulnerability row, and both tiers are empty.
C10_ClearEmptiesAll ==
  \A t \in Threads :
    (res[t].op = "clear" /\ res[t].outcome = "success" /\ Quiet)
      => /\ \A q \in Partitions : DOMAIN blobs[q] = {}
         /\ DOMAIN index = {}
         /\ vulnLog = <<>>
         /\ hot = <<>>
         /\ warm = <<>>

\* a clear has returned success in a process that had ingested a file
C10_Witness ==
  /\ res[1].op = "clear" /\ res[1].outcome = "success" /\ Quiet
  /\ stats.cached_files > 0

(***************************************************************************)
(* C11: clear without confirmation returns an error result and changes     *)
(* nothing: partition blobs, index rows, vulnerability rows and both tiers *)
(* are exactly as before the call, and no clearing step is ever under way  *)
(* for an unconfirmed request.                                             *)
(***************************************************************************)
C11_UnconfirmedClearIsRefused ==
  [][\A t \in Threads :
       /\ (loc'[t].op = "clear") => loc'[t].force
       /\ (/\ pc[t] = "idle"
           /\ calls' = calls + 1
           /\ res'[t].op = "clear"
           /\ ~res'[t].force
           /\ pc'[t] = "idle")
          => /\ res'[t].outcome = "rejected"
             /\ blobs' = blobs
             /\ index' = index
             /\ vulnLog' = vulnLog
             /\ hot' = hot
             /\ warm' = warm]_vars

\* an unconfirmed clear has been refused while every store held something
C11_Witness ==
  /\ res[1].op = "clear"
  /\ ~res[1].force
  /\ res[1].outcome = "rejected"
  /\ DOMAIN index # {}
  /\ vulnLog # <<>>
  /\ \E q \in Partitions : DOMAIN blobs[q] # {}
  /\ hot # <<>>
  /\ warm # <<>>

(***************************************************************************)
(* C12: cache(p, force) for a path whose resolved form lies outside every  *)
(* allowed directory returns no entry, at once, and leaves the index, all  *)
(* partition stores, the vulnerability log, both tiers and the counters    *)
(* unchanged, for either value of force.                                   *)
(***************************************************************************)
Outside(raw) == DirOf(Resolve(raw)) \notin AllowedDirs

C12_OutsidePathIsRefused ==
  [][\A t \in Threads :
       (/\ pc[t] = "idle"
        /\ calls' = calls + 1
        /\ \/ pc'[t] = "idle" /\ res'[t].op = "cache" /\ Outside(res'[t].key)
           \/ pc'[t] # "idle" /\ loc'[t].op = "cache" /\ Outside(loc'[t].key))
       => /\ pc'[t] = "idle"
          /\ res'[t].outcome = "rejected"
          /\ res'[t].entry = None
          /\ index' = index
          /\ blobs' = blobs
          /\ vulnLog' = vulnLog
          /\ hot' = hot
          /\ warm' = warm
          /\ stats' = stats]_vars

\* a forced call has been refused for a file that exists outside, while the
\* index holds rows
C12_Witness ==
  /\ res[1].op = "cache"
  /\ res[1].key = PathOut
  /\ res[1].force
  /\ res[1].outcome = "rejected"
  /\ disk[PathOut] # None
  /\ calls = 2
  /\ DOMAIN index # {}

(***************************************************************************)
(* C13: two concurrent cache_file(p, force = true) calls on one path run   *)
(* without mutual exclusion; every index write puts the writing call's own *)
(* entry, whole, in the row of p and touches no other row, nothing but an  *)
(* index write or the access bump of a fresh hit changes the index, and    *)
(* once both calls have returned the row of p is the entry of one of them, *)
(* never a mixture.                                                        *)
(***************************************************************************)
ForcedIngest(t, p) ==
  /\ res[t].op = "cache"
  /\ res[t].force
  /\ res[t].outcome = "ingested"
  /\ Resolve(res[t].key) = p

C13_LastIndexWriteWins ==
  [][/\ \A t \in Threads :
         (pc[t] = "cf_index" /\ pc'[t] = "cf_tiers")
         => LET e == The(loc[t].entry)
            IN  /\ e.path \in DOMAIN index'
                /\ index'[e.path] = e
                /\ \A k \in DOMAIN index' \ {e.path} :
                      k \in DOMAIN index /\ index'[k] = index[k]
                /\ DOMAIN index \subseteq DOMAIN index'
     /\ (index' # index)
         => \E t \in Threads :
              \/ pc[t] = "cf_index" /\ pc'[t] = "cf_tiers"
              \/ pc[t] = "cf_bump" /\ pc'[t] = "idle"
     /\ \A p \in Paths :
         (Quiet' /\ ForcedIngest(1, p)' /\ ForcedIngest(2, p)')
         => /\ p \in DOMAIN index'
            /\ index'[p] \in {The(res'[1].entry), The(res'[2].entry)}]_vars

\* both forced calls on PathA have returned; they overlapped (the first
\* caller built its entry before the second call was made, and wrote the
\* index after the second did), their entries differ, and the row is the
\* first caller's
C13_Witness ==
  /\ Quiet
  /\ ForcedIngest(1, PathA)
  /\ ForcedIngest(2, PathA)
  /\ The(res[1].entry) # The(res[2].entry)
  /\ The(res[1].entry).last_accessed < The(res[2].entry).last_accessed
  /\ index[PathA] = The(res[1].entry)

(***************************************************************************)
(* C14: for distinct paths A and B, cache_file(A) and cache_file(B) run    *)
(* concurrently end, under every interleaving of their steps, with the     *)
(* index row, the partition blob and the vulnerability rows of A and of B  *)
(* that the two calls leave when run one after the other, in either order  *)
(* (the row's last_accessed being the clock reading of one of the orders). *)
(***************************************************************************)
RowsOf(log, p) == SelectSeq(log, LAMBDA r : r.file_path = p)

\* what the stores hold for one path
PathState(p) ==
  [row   |-> GetCacheEntry(p),
   blob  |-> [q \in Partitions |->
                IF p \in DOMAIN blobs[q] THEN Some(blobs[q][p]) ELSE None],
   vulns |-> RowsOf(vulnLog, p)]

\* what one ingestion of p, run alone at time n on empty stores, leaves
SequentialState(p, n) ==
  LET st == The(Stat(p))
      e  == BuildEntry(p, st.content, st, n)
  IN  [row   |-> Some(e),
       blob  |-> [q \in Partitions |->
                    IF q = e.partition_key
                    THEN Some(BlobRow(e, EncodeBlob(st.content)))
                    ELSE None],
       vulns |-> StoreVulnerabilities(<<>>, p, e.vulnerabilities)]

Ingested(t, p) ==
  /\ res[t].op = "cache"
  /\ res[t].outcome = "ingested"
  /\ Resolve(res[t].key) = p

BothIngested ==
  /\ Quiet
  /\ calls = 2
  /\ \E t, u \in Threads : t # u /\ Ingested(t, PathA) /\ Ingested(u, PathB)

C14_DistinctPathsCommute ==
  BothIngested
  => \A p \in Paths : \E n \in 1..2 : PathState(p) = SequentialState(p, n)

\* the two calls overlapped: both entries were built after the second call
\* had been made, and A has findings in the log
C14_Witness ==
  /\ BothIngested
  /\ index[PathA].last_accessed = 2
  /\ index[PathB].last_accessed = 2
  /\ RowsOf(vulnLog, PathA) # <<>>

(***************************************************************************)
(* C15: partition_for(p) is a function of p and the partition count alone  *)
(* (the first byte of the path's md5, modulo the count) and names one of   *)
(* the partitions created at start; in every reachable state each index    *)
(* row's partition key is partition_for(its path), and a blob for p is     *)
(* stored in no partition other than partition_for(p).                     *)
(***************************************************************************)
C15_PartitionOfPath ==
  /\ \A raw \in RawPaths : GetPartitionForPath(Resolve(raw)) \in Partitions
  /\ \A p \in DOMAIN index :
       /\ index[p].path = p
       /\ index[p].partition_key = Md5FirstByte(p) % PartitionCount
  /\ \A q \in DOMAIN blobs : \A p \in DOMAIN blobs[q] :
       /\ q \in Partitions
       /\ q = Md5FirstByte(p) % PartitionCount
  /\ \A t \in Threads :
       (loc[t].entry # None /\ loc[t].op = "cache" /\ pc[t] \in IngestLabels)
       => The(loc[t].entry).partition_key
            = Md5FirstByte(The(loc[t].entry).path) % PartitionCount

\* both paths are cached, each with its blob in its own partition
C15_Witness ==
  /\ DOMAIN index = Paths
  /\ PathA \in DOMAIN blobs[GetPartitionForPath(PathA)]
  /\ PathB \in DOMAIN blobs[GetPartitionForPath(PathB)]
  /\ GetPartitionForPath(PathA) # GetPartitionForPath(PathB)

(***************************************************************************)
(* C16: when an ingestion or re-ingestion of p returns an entry, with no   *)
(* other operation on p running beside it, the blob of p is stored in      *)
(* partition_for(p) as the entry describes it, the index row of p equals   *)
(* the returned entry, and the hot tier and the warm tier both hold that   *)
(* same entry for p.                                                       *)
(***************************************************************************)
IngestionReturns(t) ==
  /\ pc[t] \in {"cf_tiers", "cf_vulns"}
  /\ \/ pc'[t] = "idle" /\ res'[t].op = "cache" /\ res'[t].outcome = "ingested"
     \/ pc'[t] = "sync_next"

AppendedFor(p, findings) ==
  /\ Len(vulnLog') = Len(vulnLog) + Len(findings)
  /\ SubSeq(vulnLog', 1, Len(vulnLog)) = vulnLog
  /\ \A i \in 1 .. Len(findings) :
       LET r == vulnLog'[Len(vulnLog) + i]
       IN  /\ r.file_path = p
           /\ r.vulnerability_type = findings[i].type
           /\ r.severity = findings[i].severity

C17_VulnerabilityLogAppendOnly ==
  [][/\ \A i \in 1 .. Len(vulnLog') : ~vulnLog'[i].resolved
     /\ \A t \in Threads :
          /\ (pc[t] = "cf_vulns" /\ IngestionReturns(t))
             => /\ The(loc[t].entry).vulnerabilities # <<>>
                /\ AppendedFor(The(loc[t].entry).path,
                               The(loc[t].entry).vulnerabilities)
          /\ (pc[t] = "cf_tiers" /\ IngestionReturns(t))
             => /\ The(loc[t].entry).vulnerabilities = <<>>
                /\ vulnLog' = vulnLog
          /\ (pc[t] = "sc_vulns" /\ pc'[t] = "sc_next")
             => AppendedFor(loc[t].key,
                            index'[loc[t].key].vulnerabilities)
     /\ (vulnLog' # vulnLog)
        => \E t \in Threads :
             \/ pc[t] = "cf_vulns" /\ IngestionReturns(t)
             \/ pc[t] = "sc_vulns" /\ pc'[t] = "sc_next"
             \/ /\ pc[t] = "cl_index" /\ pc'[t] = "cl_tiers"
                /\ vulnLog' = <<>>
             \/ /\ pc[t] = "rm_index" /\ pc'[t] = "rm_tiers"
                /\ \A p \in Paths \ {loc[t].key} :
                     RowsOf(vulnLog', p) = RowsOf(vulnLog, p)]_vars

\* PathA has been ingested twice with one finding each time: two rows
C17_Witness ==
  /\ Len(RowsOf(vulnLog, PathA)) = 2
  /\ PathA \in DOMAIN index
  /\ Len(index[PathA].vulnerabilities) = 1
  /\ Quiet

(***************************************************************************)
(* C18: analyze is a function of (content, path): the score is             *)
(* max(0, 100 - sum) with sum taken over the applicable patterns that      *)
(* match at least once, 30 for CRITICAL, 20 for HIGH, 10 for MEDIUM and 5  *)
(* for LOW, so it lies in 0..100; a matched pattern is charged once (and   *)
(* reported once) however often it occurs; and a match of a HIGH pattern   *)
(* that applies and had not matched lowers the score by exactly 20,        *)
(* floored at 0.                                                           *)
(***************************************************************************)
Applicable(path) ==
  {k \in 1 .. Len(SecurityPatterns) :
     Suffix(path) \in SecurityPatterns[k].file_types}

Hit(text, path, severity) ==
  {k \in Applicable(path) :
     /\ SecurityPatterns[k].severity = severity
     /\ \E i \in 1 .. Len(text) : text[i] = k}

ExpectedRaw(text, path) ==
  100 - ( 30 * Cardinality(Hit(text, path, "CRITICAL"))
        + 20 * Cardinality(Hit(text, path, "HIGH"))
        + 10 * Cardinality(Hit(text, path, "MEDIUM"))
        +  5 * Cardinality(Hit(text, path, "LOW")) )

AtLeastZero(n) == IF n < 0 THEN 0 ELSE n

Analysed(t) == res[t].op = "analyze"

C18_ScoreIsSumOfDeductions ==
  [][\A t \in Threads :
       (Analysed(t)' /\ res'[t] # res[t])
       => LET text  == The(res'[t].content)
              path  == res'[t].key
              score == The(res'[t].entry).security_score
              found == The(res'[t].entry).vulnerabilities
          IN  /\ text = loc[t].text
              /\ score = AtLeastZero(ExpectedRaw(text, path))
              /\ score \in 0 .. 100
              /\ Len(found) = Cardinality(UNION {Hit(text, path, sv) :
                     sv \in {"CRITICAL", "HIGH", "MEDIUM", "LOW"}})
              /\ \A i, j \in 1 .. Len(found) :
                    found[i].type = found[j].type => i = j
              /\ \A k \in Applicable(path) :
                    (/\ Analysed(t)
                     /\ res[t].key = path
                     /\ text = Append(The(res[t].content), k)
                     /\ SecurityPatterns[k].severity = "HIGH"
                     /\ Matches(The(res[t].content), k) = 0)
                    => score = AtLeastZero(
                                 The(res[t].entry).security_score - 20)]_vars

\* a source content has been analysed whose deductions sum to 110 and whose
\* last block is the only match of a HIGH pattern: the score is 0, and was 10
\* without that block
C18_Witness ==
  /\ Analysed(1)
  /\ res[1].key = PathA
  /\ The(res[1].content) = loc[1].text
  /\ The(res[1].entry).security_score = 0
  /\ ExpectedRaw(loc[1].text, PathA) = -10
  /\ loc[1].text[Len(loc[1].text)] = 2
  /\ Matches(loc[1].text, 2) = 1

(***************************************************************************)
(* C19: in every reachable state an index row whose security score is not  *)
(* 100, or whose finding list is not empty, is classified as source and    *)
(* was scored while security analysis was enabled; no operation, the       *)
(* re-scan included, gives such a score to a row when security analysis is *)
(* disabled or the row is not source.  (The configuration is fixed for the *)
(* life of the stores here, so "was enabled" is "is enabled".)             *)
(***************************************************************************)
C19_ScoredOnlyWhenEnabled ==
  \A p \in DOMAIN index :
    (index[p].security_score # 100 \/ index[p].vulnerabilities # <<>>)
    => /\ index[p].file_type = "source"
       /\ config.security_analysis

(***************************************************************************)
(* C20: performance_metrics reports a hit rate equal to                    *)
(* 100 * hits / (hits + misses) for the hits and misses reported in the    *)
(* same result, so that rate * (hits + misses) = 100 * hits whenever       *)
(* hits + misses > 0, and the call never fails by dividing by zero.        *)
(***************************************************************************)
C20_HitRateOfReportedCounters ==
  \A t \in Threads :
    (res[t].op = "metrics")
    => /\ res[t].outcome = "ok"
       /\ LET m      == The(res[t].metrics)
              hits   == m.cache_hits
              misses == m.cache_misses
              rate   == m.hit_rate_percent
          IN  (hits + misses > 0)
              => /\ rate.den # 0
                 /\ rate.num * (hits + misses) = 100 * hits * rate.den

(***************************************************************************)
(* C21: warm never aborts its batch when files fail to ingest, and its     *)
(* result tallies the failures beside the successes: the reported error    *)
(* count is the number of processed files whose ingestion produced no      *)
(* entry, so files_processed = files_cached + errors.                      *)
(***************************************************************************)
C21_WarmTalliesFailures ==
  \A t \in Threads :
    (res[t].op = "warm")
    => LET r == The(res[t].report)
       IN  /\ Len(res[t].processed) = r.files_processed
           /\ r.files_processed = r.files_cached + r.errors

(***************************************************************************)
(* C22: an ingestion that fails on an I/O failure (file unreadable or      *)
(* vanished, store unavailable) returns no entry and adds exactly one to   *)
(* the error statistic; one that fails validation (path outside the        *)
(* allow-list, file above the ceiling) returns no entry and leaves the     *)
(* error statistic alone.  Neither raises: the call returns.               *)
(***************************************************************************)
IoFailure == {"unreadable", "error"}
ValidationFailure == {"rejected", "too_large"}

C22_IoFailureCountsOneError ==
  [][\A t \in Threads :
       CacheReturns(t)
       => /\ (res'[t].outcome \in IoFailure
              => /\ res'[t].entry = None
                 /\ stats'.errors = stats.errors + 1)
          /\ (res'[t].outcome \in ValidationFailure
              => /\ res'[t].entry = None
                 /\ stats'.errors = stats.errors)]_vars

(***************************************************************************)
(* C23: for any list of glob patterns, repeated or overlapping ones        *)
(* included, warm submits each distinct matching path to the ingestion     *)
(* pipeline exactly once, and files_processed is the number of distinct    *)
(* eligible paths.                                                         *)
(***************************************************************************)
\* the names some pattern of the list matches and the filter lets through
Eligible(patterns) ==
  {raw \in RawPaths \cup Files :
     /\ \E i \in 1 .. Len(patterns) : raw \in Glob(patterns[i])
     /\ ShouldCacheFile(raw)}

NoRepeats(list) ==
  \A i, j \in 1 .. Len(list) : list[i] = list[j] => i = j

C23_EachDistinctPathOnce ==
  [][\A t \in Threads :
       \* the request fixes the batch: the eligible names, each once
       /\ (pc[t] = "idle" /\ pc'[t] = "warm_next")
          => /\ NoRepeats(loc'[t].diff)
             /\ Range(loc'[t].diff) = Eligible(loc'[t].patterns)
             /\ loc'[t].files = loc'[t].diff
             /\ loc'[t].processed = <<>>
       \* a submission takes the next name of the batch
       /\ (pc[t] = "warm_next" /\ pc'[t] \notin {"warm_next", "idle"})
          => /\ loc'[t].key = Head(loc[t].files)
             /\ loc'[t].processed \o loc'[t].files = loc[t].diff
             /\ loc'[t].diff = loc[t].diff
       \* the batch ends when every name has been submitted, once
       /\ (pc[t] = "warm_next" /\ pc'[t] = "idle" /\ res'[t].op = "warm")
          => /\ res'[t].processed = loc[t].diff
             /\ NoRepeats(res'[t].processed)
             /\ The(res'[t].report).files_processed =
                  Cardinality(Range(loc[t].diff))]_vars

\* an overlapping list whose two names were both submitted
C23_Witness ==
  /\ res[1].op = "warm"
  /\ res[1].patterns = <<GlobTmpAll, GlobTmpPy>>
  /\ Range(res[1].processed) = {PathA, PathB}
  /\ The(res[1].report).files_processed = 2

(***************************************************************************)
(* C24: the partition rebalance check moves no data: a rebalance cycle,    *)
(* whether or not it detects imbalance, leaves every partition's blobs,    *)
(* every index row (partition key and content location included), the     *)
(* vulnerability log and both tiers unchanged.                             *)
(***************************************************************************)
\* a step taken by the rebalance cycle of thread t
RebalanceStep(t) ==
  /\ <<pc[t], loc[t]>> # <<pc'[t], loc'[t]>>
  /\ "rebalance" \in {loc[t].op, loc'[t].op}

C24_RebalanceMovesNothing ==
  [][\A t \in Threads :
       RebalanceStep(t)
       => /\ blobs' = blobs
          /\ index' = index
          /\ vulnLog' = vulnLog
          /\ hot' = hot
          /\ warm' = warm]_vars

\* a cycle that found the partitions imbalanced, over a non-empty store
C24_Witness ==
  /\ res[RebalanceThread].op = "rebalance"
  /\ res[RebalanceThread].outcome = "imbalanced"
  /\ index # EmptyTable
  /\ \E i \in Partitions : blobs[i] # EmptyTable

(***************************************************************************)
(* C25: for every path p that has an index row and a stored blob, the get  *)
(* command answers with the cached content bytes (found); it answers with  *)
(* the miss indicator only when p is not cached.  This holds for every     *)
(* stored content, a cached file of zero bytes included.                   *)
(***************************************************************************)
\* p has an index row and a blob in the partition the row names
Cached(p) ==
  /\ p \in DOMAIN index
  /\ p \in DOMAIN blobs[index[p].partition_key]

\* the step in which the get command of thread t answers
GetReturns(t) ==
  /\ pc[t] \in {"g_lookup", "g_read"}
  /\ pc'[t] = "idle"
  /\ res'[t].op = "get"

C25_GetAnswersCachedContent ==
  [][\A t \in Threads :
       GetReturns(t)
       => /\ Cached(res'[t].key)
             => /\ res'[t].outcome = "found"
                /\ res'[t].content =
                     DecodeBlob(blobs[index[res'[t].key].partition_key]
                                     [res'[t].key])
          /\ res'[t].outcome = "miss" => ~Cached(res'[t].key)]_vars

(***************************************************************************)
(* C26: the connection-pool lock is held only while a connection is looked *)
(* up or created and is released before the caller runs its queries on the *)
(* returned handle: a thread that is executing a query does not hold the   *)
(* lock, so another thread that asks for a connection does not wait.       *)
(***************************************************************************)
C26_PoolLockFreeDuringQuery ==
  \A t \in Threads :
    pc[t] = "ck_query"
    => /\ dbLock # t
       /\ \A u \in Threads \ {t} : pc[u] = "ck_enter" => ENABLED CkEnter(u)

(***************************************************************************)
(* C27: every update of an aggregate counter (cache hits, cached files,    *)
(* errors) is made under a lock, so no increment is lost: after N          *)
(* completed operations that each increment a counter once, the counters   *)
(* have grown by exactly N under every interleaving of the threads.        *)
(***************************************************************************)
C27_NoIncrementLost ==
  Quiet => stats.cache_hits + stats.cached_files + stats.errors = calls

(***************************************************************************)
(* C28: an exception raised during one cycle of a maintenance loop         *)
(* (incremental sync, vulnerability re-scan, rebalance check) ends neither *)
(* that loop nor the other two: each loop keeps sleeping and starting new  *)
(* cycles, independently of the others.  Stated on states: once a cycle    *)
(* has raised, no loop is ever inside a cycle that cannot take a step.     *)
(***************************************************************************)
\* the steps of the cycle of loop w
WorkerSteps(w) ==
  \/ /\ w = UpdateThread
     /\ (CacheSteps(w) \/ RemoveSteps(w) \/ SyncNext(w))
  \/ /\ w = ScanThread
     /\ (GetSteps(w) \/ ScanSteps(w))
  \/ /\ w = RebalanceThread
     /\ RebalanceSteps(w)

\* loop w sleeps, or its cycle can go on
LoopRuns(w) == pc[w] = "idle" \/ ENABLED WorkerSteps(w)

\* the last finished cycle of some loop ended in the loop's except clause
CycleRaised == \E w \in Workers : res[w].outcome = "error"

C28_LoopsSurviveExceptions ==
  CycleRaised => \A w \in Workers : LoopRuns(w)

(***************************************************************************)
(* C29: a read of an entry from the persistent store populates the memory  *)
(* tiers only on the content-retrieval path: a get(p) that misses both     *)
(* tiers and is served from the index and the owning partition leaves p's  *)
(* entry in the tiers afterwards, whereas check(p) and the freshness       *)
(* lookup of cache(p) never insert p into either tier.                     *)
(***************************************************************************)
\* a get of thread t, served from the index and the partition, answers
ServedFromStore(t) ==
  /\ pc[t] = "g_read"
  /\ dbLock # t
  /\ pc'[t] = "idle"
  /\ res'[t].op = "get"
  /\ res'[t].outcome = "found"

\* a step of a check command, or the freshness lookup of a cache command
LookupOnly(t) ==
  \/ /\ <<pc[t], loc[t]>> # <<pc'[t], loc'[t]>>
     /\ "check" \in {loc[t].op, loc'[t].op}
  \/ /\ pc[t] = "cf_lookup"
     /\ pc'[t] # "cf_lookup"

C29_OnlyGetPopulatesTiers ==
  [][\A t \in Threads :
       /\ ServedFromStore(t)
          => res'[t].key \in Keys(hot') \cup Keys(warm')
       /\ LookupOnly(t) => hot' = hot /\ warm' = warm]_vars

(***************************************************************************)
(* C30: a get(p) that misses the hot tier and hits the warm tier inserts   *)
(* the same entry into the hot tier without removing it from the warm      *)
(* tier: afterwards p is in both tiers with an identical entry, and the    *)
(* hit does not restart p's warm-tier lifetime.                            *)
(***************************************************************************)
\* the tier lookup of a get of thread t misses the hot tier and hits the
\* warm tier
WarmHit(t) ==
  /\ pc[t] = "idle"
  /\ pc'[t] # "idle"
  /\ loc'[t].op = "get"
  /\ loc'[t].key \notin Keys(hot)
  /\ loc'[t].key \in Keys(warm)

C30_WarmHitIsPromoted ==
  [][\A t \in Threads :
       WarmHit(t)
       => /\ Lookup(hot', loc'[t].key) = Lookup(warm, loc'[t].key)
          /\ Lookup(warm', loc'[t].key) = Lookup(warm, loc'[t].key)
          /\ loc'[t].entry = Lookup(warm, loc'[t].key)
          \* the warm tier, which is kept in expiry order, is as it was
          /\ warm' = warm]_vars

\* the older of two warm entries was promoted and is still the first to
\* expire
C30_Witness ==
  /\ pc[1] = "g_read"
  /\ loc[1].op = "get"
  /\ loc[1].key = PathA
  /\ Len(warm) = 2
  /\ warm[1].path = PathA
  /\ Lookup(hot, PathA) = Some(warm[1])

(***************************************************************************)
(* C31: an index-level re-score never invalidates the tiers: a re-scan     *)
(* that changes the score or the findings of p in the index removes p from *)
(* neither tier and leaves the score and findings of the tier copies as    *)
(* they were, so a tier may hold a score older than the index.             *)
(***************************************************************************)
\* the re-scan of thread t rewrites an index row
Rescored(t) == pc[t] = "sc_update" /\ index' # index

C31_RescoreKeepsTiers ==
  [][\A t \in Threads : Rescored(t) => hot' = hot /\ warm' = warm]_vars

\* both tiers hold p with the score of its ingestion while the index holds
\* the score of a later re-scan
C31_Witness ==
  /\ PathA \in DOMAIN index
  /\ Lookup(hot, PathA) # None
  /\ Lookup(warm, PathA) # None
  /\ The(Lookup(hot, PathA)).security_score = 100
  /\ The(Lookup(warm, PathA)).security_score = 100
  /\ index[PathA].security_score < 100
  /\ pc[ScanThread] = "idle"
  /\ res[ScanThread].op = "scan"

(***************************************************************************)
(* C32: in every reachable state, for every path that has a stored blob,   *)
(* the compressed flag of the partition row and the compressed flag of the *)
(* index row both equal whether the stored bytes are compressed, and the   *)
(* bytes are compressed exactly when the original size strictly exceeded   *)
(* the compression threshold.                                              *)
(***************************************************************************)
\* the partition row of p in partition i is flagged as its bytes are
\* encoded, and encoded as its original length requires
BlobFlagRight(i, p) ==
  LET row == blobs[i][p]
  IN  /\ row.compressed = IsGzip(row.content)
      /\ DecodeBlob(row) # None
      /\ IsGzip(row.content)
           <=> Len(The(DecodeBlob(row))) > CompressionThreshold

\* the index row of p, when it names partition i, carries the same flag
IndexFlagRight(i, p) ==
  (p \in DOMAIN index /\ index[p].partition_key = i)
  => index[p].compressed = IsGzip(blobs[i][p].content)

\* the claim as worded: in every reachable state
C32_FlagsMatchInEveryState ==
  \A i \in Partitions :
    \A p \in DOMAIN blobs[i] : BlobFlagRight(i, p) /\ IndexFlagRight(i, p)

\* the index row and the blob come from the same ingestion
SameIngestion(i, p) ==
  /\ p \in DOMAIN index
  /\ index[p].partition_key = i
  /\ index[p].checksum = blobs[i][p].checksum

\* amended: the index row's flag is required when the row and the blob
\* were written by the same ingestion
C32_FlagsMatchEncoding ==
  \A i \in Partitions :
    \A p \in DOMAIN blobs[i] :
      /\ BlobFlagRight(i, p)
      /\ SameIngestion(i, p) => index[p].compressed = IsGzip(blobs[i][p].content)

\* a compressed blob with its index row, and a raw one
C32_Witness ==
  /\ PathA \in DOMAIN index
  /\ index[PathA].compressed
  /\ PathA \in DOMAIN blobs[index[PathA].partition_key]
  /\ IsGzip(blobs[index[PathA].partition_key][PathA].content)
  /\ \E p \in DOMAIN index :
       /\ ~index[p].compressed
       /\ p \in DOMAIN blobs[index[p].partition_key]

(***************************************************************************)
(* C33: in every reachable state the hot tier holds at most its fixed      *)
(* capacity of entries and the warm tier at most its own, whatever         *)
(* sequence of ingestions, gets, deletions and clears has run; inserting   *)
(* into a full hot tier evicts the least-recently-used entry.              *)
(***************************************************************************)
\* the position of key k in a tier
PosIn(tier, k) == CHOOSE i \in 1 .. Len(tier) : tier[i].path = k

\* tier "after" keeps the keys it shares with "before" in the same order
SameOrder(before, after) ==
  \A j, k \in Keys(before) \cap Keys(after) :
    PosIn(before, j) < PosIn(before, k) => PosIn(after, j) < PosIn(after, k)

C33_TiersBoundedAndLru ==
  /\ [](Len(hot) <= TierHotSize /\ Len(warm) <= TierWarmSize)
  /\ [][\* the entries below the most recent one keep their recency order
        /\ SameOrder(hot, SubSeq(hot', 1, Len(hot') - 1))
        \* a new key into a full hot tier: the least recently used goes,
        \* and nothing else
        /\ \A k \in TierKeys :
             (Len(hot) = TierHotSize /\ k \notin Keys(hot) /\ k \in Keys(hot'))
             => /\ Keys(hot') = (Keys(hot) \ {hot[1].path}) \cup {k}
                /\ hot'[Len(hot')].path = k
        \* a hit makes the key the most recent
        /\ \A k \in Keys(hot) \cap Keys(hot') :
             (hot' # hot /\ Keys(hot') = Keys(hot) /\ PosIn(hot', k) > PosIn(hot, k))
             => hot'[Len(hot')].path = k]_vars

\* a full hot tier whose older entry was read and so outlived the insertion
\* of a third key
C33_Witness ==
  /\ Len(hot) = TierHotSize
  /\ Len(warm) = TierWarmSize
  /\ hot[1].path = PathA
  /\ hot[2].path = PathOut
  /\ warm[1].path = PathA
  /\ warm[2].path = PathB

C35_QuiescentStoresAgree ==
  Quiet =>
    \A p \in Files :
      IF p \in DOMAIN index
      THEN /\ p \in DOMAIN blobs[index[p].partition_key]
           /\ DecodeBlob(blobs[index[p].partition_key][p]) # None
           /\ index[p].checksum =
                Sha256(The(DecodeBlob(blobs[index[p].partition_key][p])))
      ELSE BlobPartitions(p) = {}

\* C36: whenever the index entry of a path counts as fresh (its recorded
\* modification time is greater than or equal to the file's current one),
\* the blob stored for the path holds the file's current content, even if
\* the file is rewritten, with a strictly newer modification time, while an
\* ingestion of the path is in progress.
C36_FreshEntryHoldsCurrentContent ==
  \A p \in Paths :
    (/\ p \in DOMAIN index
     /\ Stat(p) # None
     /\ IsFresh(Some(index[p]), The(Stat(p))))
    => ReadBlob(index[p]) = Some(The(Stat(p)).content)

\* C37: in every reachable state, every row of the vulnerability log refers
\* to a path that has an index row (the declared foreign key holds): no
\* interleaving of ingestion or re-scan with removal or clear leaves
\* vulnerability rows for a path that is no longer indexed.
C37_VulnRowsAreIndexed ==
  \A i \in 1 .. Len(vulnLog) : vulnLog[i].file_path \in DOMAIN index

\* C38: concurrent fresh hits lose no access update: when N calls
\* cache(p, force=false) all take the fresh path for p, under any
\* interleaving, the access count of p's index row ends exactly N higher
\* than before.  Here p has been ingested once (count 1, one call) and all
\* later calls are fresh hits: the count is the number of calls issued less
\* the calls that have not yet run their UPDATE, and every call that
\* returned took the fresh path.
FreshPending == Cardinality({t \in Clients : pc[t] \in {"cf_lookup", "cf_bump"}})

C38_FreshHitsAllCounted ==
  /\ PathB \in DOMAIN index
  /\ index[PathB].access_count = calls - FreshPending
  /\ Quiet => index[PathB].access_count = FirstEntryB.access_count + (calls - 1)
  /\ \A t \in Clients :
       res[t].op = "cache"
       => \/ res[t].outcome = "fresh"
          \/ t = 1 /\ res[t].outcome = "ingested" /\ res[t].entry = Some(FirstEntryB)

\* three fresh hits, issued by both threads and overlapping, have returned
\* and the count stands at four
C38_Witness ==
  /\ Quiet
  /\ calls = MaxFreshCalls
  /\ index[PathB].access_count = MaxFreshCalls
  /\ \A t \in Clients : res[t].outcome = "fresh"
  /\ stats.cache_hits < MaxFreshCalls - 1

\* C39: after sync(base, target) over a diff in which a cached file is
\* renamed from path old to path new, the index has an entry for new
\* holding the file's content and no entry (and no blob) for old.  Stated
\* where the loop of update_from_git has taken every change of a diff with
\* the line "R100 PathA PathB", the files being as the rename leaves them
\* (PathA gone, PathB present); that PathA was cached by this process shows
\* in the warm tier, where only a removal or the expiry deletes an entry.
RenameSynced(t) ==
  /\ pc[t] = "sync_next"
  /\ loc[t].changes = <<>>
  /\ \E i \in 1 .. Len(loc[t].diff) :
       loc[t].diff[i] = [file_path |-> PathA, change_type |-> "renamed"]
  /\ Stat(PathA) = None
  /\ Stat(PathB) # None
  /\ PathA \in Keys(warm)

C39_RenameMovesEntry ==
  RenameSynced(1) =>
    /\ PathB \in DOMAIN index
    /\ ReadBlob(index[PathB]) = Some(The(Stat(PathB)).content)
    /\ PathA \notin DOMAIN index
    /\ BlobPartitions(PathA) = {}

\* C40: the access count recorded in the index for a path never decreases
\* while the path stays indexed: neither a forced re-ingestion, nor a
\* re-ingestion after the file changed, nor a re-scan lowers or resets it.
C40_AccessCountNeverDecreases ==
  [][\A p \in DOMAIN index \cap DOMAIN index' :
       index'[p].access_count >= index[p].access_count]_vars
====
